---- MODULE Spec2Model ----
(***************************************************************************)
(* Model of the narrative-analysis scripts of Detetor-de-narrativas.       *)
(*                                                                         *)
(* Each script is a batch pipeline.  The variable prog names the script    *)
(* that is running; every script family has its own specification          *)
(* (SpecJanelas, SpecAgregacao, SpecMonotonia, SpecNota, SpecNomes).       *)
(*                                                                         *)
(* Conventions:                                                            *)
(*   - a text is a sequence of code points (97 = 'a', 65 = 'A', 32 = ' ',  *)
(*     10 = '\n'); str methods are operators over such sequences;          *)
(*   - a float that the code only compares or subtracts is an integer in   *)
(*     hundredths; a float produced by a division is an exact fraction     *)
(*     [n, d];                                                             *)
(*   - a pandas DataFrame is a sequence of rows, each row a record that    *)
(*     carries its index label in the field "index";                       *)
(*   - a raised exception is recorded in the variable erro.                *)
(***************************************************************************)
EXTENDS Integers, Sequences, FiniteSets, TLC

VARIABLES
    prog,             \* the script being run
    pc,               \* position of the script
    erro,             \* "nenhum" or the name of the exception raised
    texto,            \* the text handed to the windower
    tamanho_janela,   \* window size in words
    limite_mudanca,   \* turning-point threshold, in hundredths
    i,                \* loop variable of dividir_e_analisar
    pontuacoes,       \* rows collected by dividir_e_analisar
    df_resultado,     \* DataFrame returned by dividir_e_analisar
    df_viradas,       \* DataFrame returned by detectar_pontos_de_virada
    viradas_exibidas, \* window numbers printed / plotted by detector_virada
    df_geral,         \* first DataFrame returned by contar_muletas
    df_janela,        \* second DataFrame returned by contar_muletas
    extracao,         \* outcome of the PDF extraction of analise_classes
    doc,              \* tokens of the text analysed by analise_classes
    stats,            \* dict returned by analisar_classes
    capitulos_stats,  \* list built by main of analise_capitulos_avancada
    glob,             \* global aggregate computed by salvar_relatorio
    avisos,           \* list returned by gerar_alertas
    relatorio,        \* content of the report file, <<>> while not written
    resultados,       \* per-paragraph results of the monotony analysers
    stats_nota,       \* dict handed to frenesi_score
    nota,             \* value returned by frenesi_score
    texto_nomes,      \* text handed to verificar_consistencia_nomes
    min_ocorrencias,  \* cutoff handed to verificar_consistencia_nomes
    inconsistencias,  \* dict returned by verificar_consistencia_nomes
    texto_exame,      \* text handed to the metric functions of the frenesi scripts
    exame,            \* value returned by the metric function applied
    frase,            \* sentence handed to detectar_aliteracao
    fonemizador,      \* behaviour of the external phonemizer, per word
    aliteracoes,      \* groups returned by detectar_aliteracao
    fonte,            \* the source PDF: missing, unreadable, or its pages
    retorno,          \* value returned by extrair_texto_de_pdf
    relogio,          \* datetime.now(), in seconds
    disco,            \* content of the report file on disk, <<>> if none
    saida,            \* pair returned by gerar_relatorio
    execucoes,        \* number of runs of the script started so far
    texto_bruto,      \* text extracted from the PDF of a chapter script
    texto_norm,       \* the text after normalizar_espacos / remover_dialogos
    capitulos,        \* list returned by split_capitulos
    capitulos_medidos,\* per-chapter list handed to salvar_relatorio
    texto_global,     \* texto_global of main of frenesi_literario_ultra
    monotonia,        \* list returned by analisar_monotonia_por_paragrafo
    texto_paragrafos, \* text handed to analisar_texto of monotonia_analisador
    texto_marcado,    \* content of texto_marcado.txt, <<>> while not written
    texto_dialogo,    \* text handed to analisar_distribuicao
    janela_interacao, \* proximity window handed to analisar_distribuicao
    nomes_possiveis,  \* set of names found by analisar_distribuicao
    contagem_dialogo, \* speech counts built by analisar_distribuicao
    interacoes        \* pair counts built by analisar_distribuicao

varsJanelas == <<texto, tamanho_janela, limite_mudanca, i, pontuacoes,
                 df_resultado, df_viradas, viradas_exibidas, df_geral, df_janela>>

varsAgregacao == <<extracao, doc, stats, capitulos_stats, glob, avisos, relatorio>>

varsMonotonia == <<resultados>>

varsNota == <<stats_nota, nota>>

varsNomes == <<texto_nomes, min_ocorrencias, inconsistencias>>

varsExame == <<texto_exame, exame>>

varsSom == <<frase, fonemizador, aliteracoes>>

varsRelatorio == <<fonte, retorno, relogio, disco, saida, execucoes>>

varsCapitulos == <<texto_bruto, texto_norm, capitulos, capitulos_medidos, texto_global,
                   monotonia>>

varsMarcado == <<texto_paragrafos, texto_marcado>>

varsDistribuicao == <<texto_dialogo, janela_interacao, nomes_possiveis, contagem_dialogo,
                      interacoes>>

vars == <<prog, pc, erro, varsJanelas, varsAgregacao, varsMonotonia, varsNota, varsNomes,
          varsExame, varsSom, varsRelatorio, varsCapitulos, varsMarcado, varsDistribuicao>>

\* The variables of the other scripts keep these values while a script runs.
ParadoJanelas ==
    /\ texto = <<>>
    /\ tamanho_janela = 0
    /\ limite_mudanca = 0
    /\ i = 0
    /\ pontuacoes = <<>>
    /\ df_resultado = <<>>
    /\ df_viradas = <<>>
    /\ viradas_exibidas = <<>>
    /\ df_geral = <<>>
    /\ df_janela = <<>>

ParadoAgregacao ==
    /\ extracao = "pendente"
    /\ doc = <<>>
    /\ stats = <<>>
    /\ capitulos_stats = <<>>
    /\ glob = <<>>
    /\ avisos = <<>>
    /\ relatorio = <<>>

ParadoMonotonia == resultados = <<>>

ParadoNota == stats_nota = <<>> /\ nota = 0

ParadoNomes == texto_nomes = <<>> /\ min_ocorrencias = 0 /\ inconsistencias = <<>>

ParadoExame == texto_exame = <<>> /\ exame = <<>>

ParadoSom == frase = <<>> /\ fonemizador = <<>> /\ aliteracoes = <<>>

ParadoRelatorio ==
    /\ fonte = <<>>
    /\ retorno = <<>>
    /\ relogio = 0
    /\ disco = <<>>
    /\ saida = <<>>
    /\ execucoes = 0

ParadoCapitulos ==
    /\ texto_bruto = <<>>
    /\ texto_norm = <<>>
    /\ capitulos = <<>>
    /\ capitulos_medidos = <<>>
    /\ texto_global = <<>>
    /\ monotonia = <<>>

ParadoMarcado == texto_paragrafos = <<>> /\ texto_marcado = <<>>

ParadoDistribuicao ==
    /\ texto_dialogo = <<>>
    /\ janela_interacao = 0
    /\ nomes_possiveis = {}
    /\ contagem_dialogo = <<>>
    /\ interacoes = <<>>

(***************************************************************************)
(* Bounds of the model.                                                    *)
(***************************************************************************)
MaxPalavras == 4      \* words of a text given to detector_virada
MaxCaracteres == 5    \* characters of a text given to contador_vicios
MaxJanela == 3        \* largest window size tried
MaxTokens == 3        \* tokens of an annotated text
MaxCapitulos == 2     \* chapters analysed by analise_capitulos_avancada
MaxFrases == 3        \* sentences of a paragraph
MaxParagrafos == 2    \* paragraphs analysed by the monotony analysers
MaxPecas == 4         \* pieces of a text given to verificador_nomes
MaxPalavrasFrase == 2 \* words of a sentence of a text given to the frenesi metrics
MaxFrasesExame == 2   \* sentences of a text given to the frenesi metrics
MaxPalavrasSom == 3   \* words of a sentence given to detectar_aliteracao
MaxPaginas == 2       \* pages of the source PDF of verificador_nomes
MaxRelogio == 2       \* seconds that pass while verificador_nomes is observed
MaxExecucoes == 2     \* runs of verificador_nomes on the same source

(***************************************************************************)
(* Generic helpers: sequences, fractions, floats that may be NaN.          *)
(***************************************************************************)
Abs(x) == IF x < 0 THEN -x ELSE x

Min(a, b) == IF a < b THEN a ELSE b

Max(a, b) == IF a > b THEN a ELSE b

RECURSIVE SomaSeq(_)
SomaSeq(s) == IF s = <<>> THEN 0 ELSE Head(s) + SomaSeq(Tail(s))

\* Python slice s[a:b] with 0 <= a, on a 1-based sequence.
Fatia(s, a, b) == SubSeq(s, a + 1, Min(b, Len(s)))

RECURSIVE MDC(_, _)
MDC(a, b) == IF b = 0 THEN a ELSE MDC(b, a % b)

\* The exact value n / d of a float division with d > 0 and n >= 0.
Fracao(n, d) == LET g == MDC(n, d) IN [n |-> n \div g, d |-> d \div g]

FracaoZero == [n |-> 0, d |-> 1]

\* What a division by zero produces: ZeroDivisionError.
ZeroDivisionError == [n |-> 0, d |-> 0]

\* a / b as Python evaluates it.
Dividir(a, b) == IF b = 0 THEN ZeroDivisionError ELSE Fracao(a, b)

\* (a / b) * k
DividirVezes(a, b, k) == IF b = 0 THEN ZeroDivisionError ELSE Fracao(a * k, b)

\* A float of a pandas column: a number or NaN.
NaN == [nan |-> TRUE, v |-> 0]

Num(x) == [nan |-> FALSE, v |-> x]

\* x > y on floats: every comparison with NaN is False.
MaiorQue(x, y) == ~x.nan /\ x.v > y

(***************************************************************************)
(* str methods over sequences of code points.                              *)
(***************************************************************************)
EhEspaco(c) == c \in {9, 10, 11, 12, 13, 32}

\* \w of the re module on str patterns (the ASCII part of it).
EhLetraPalavra(c) ==
    \/ c >= 97 /\ c <= 122
    \/ c >= 65 /\ c <= 90
    \/ c >= 48 /\ c <= 57
    \/ c = 95

LowerChar(c) == IF c >= 65 /\ c <= 90 THEN c + 32 ELSE c

\* str.lower()
Lower(t) == [k \in 1..Len(t) |-> LowerChar(t[k])]

\* str.replace('\n', ' ')
ReplaceNL(t) == [k \in 1..Len(t) |-> IF t[k] = 10 THEN 32 ELSE t[k]]

\* str.split(): the maximal runs of non-whitespace characters.
RECURSIVE SplitDe(_, _, _, _)
SplitDe(t, k, atual, acc) ==
    IF k > Len(t)
    THEN IF atual = <<>> THEN acc ELSE Append(acc, atual)
    ELSE IF EhEspaco(t[k])
         THEN SplitDe(t, k + 1, <<>>, IF atual = <<>> THEN acc ELSE Append(acc, atual))
         ELSE SplitDe(t, k + 1, Append(atual, t[k]), acc)

Split(t) == SplitDe(t, 1, <<>>, <<>>)

\* " ".join(palavras)
RECURSIVE Join(_)
Join(ps) ==
    IF ps = <<>> THEN <<>>
    ELSE IF Len(ps) = 1 THEN ps[1]
    ELSE ps[1] \o <<32>> \o Join(Tail(ps))

\* len(texto.strip())
RECURSIVE StripEsq(_)
StripEsq(t) == IF t # <<>> /\ EhEspaco(Head(t)) THEN StripEsq(Tail(t)) ELSE t

RECURSIVE StripDir(_)
StripDir(t) ==
    IF t # <<>> /\ EhEspaco(t[Len(t)]) THEN StripDir(SubSeq(t, 1, Len(t) - 1)) ELSE t

Strip(t) == StripDir(StripEsq(t))

(***************************************************************************)
(* re.findall(r'\b' + re.escape(muleta) + r'\b', texto)                    *)
(***************************************************************************)
\* \b holds before position p (1..Len+1): exactly one neighbour is a \w.
Fronteira(t, p) ==
    LET antes  == p > 1 /\ EhLetraPalavra(t[p - 1])
        depois == p <= Len(t) /\ EhLetraPalavra(t[p])
    IN  antes # depois

\* Variant of CasaEm that matches the entry as a plain substring.
CasaEmSubcadeia(t, lit, p) ==
    /\ p + Len(lit) - 1 <= Len(t)
    /\ \A k \in 1..Len(lit) : t[p + k - 1] = lit[k]

CasaEm(t, lit, p) ==
    /\ p + Len(lit) - 1 <= Len(t)
    /\ \A k \in 1..Len(lit) : t[p + k - 1] = lit[k]
    /\ Fronteira(t, p)
    /\ Fronteira(t, p + Len(lit))

\* Number of non-overlapping matches found scanning from position p.
RECURSIVE ContarDe(_, _, _)
ContarDe(t, lit, p) ==
    IF p > Len(t) THEN 0
    ELSE IF CasaEm(t, lit, p) THEN 1 + ContarDe(t, lit, p + Len(lit))
    ELSE ContarDe(t, lit, p + 1)

Ocorrencias(t, lit) == ContarDe(t, lit, 1)

(***************************************************************************)
(* detector_virada.py                                                      *)
(***************************************************************************)
\* pd.DataFrame(rows): the rows get the index labels 0, 1, 2, ...
ParaDataFrame(rows) == [k \in 1..Len(rows) |-> rows[k] @@ [index |-> k - 1]]

\* The guard of dividir_e_analisar: empty text, or fewer characters than
\* tamanho_janela once stripped.
TextoCurto(t, w) == t = <<>> \/ Len(Strip(t)) < w

\* Variant of NoRange that stops before a partial last step.
NoRangeSemCauda(k, n, w) == IF w > 0 THEN k + w <= n ELSE k > n

\* range(0, n, w) still yields the value k (w # 0).
NoRange(k, n, w) == IF w > 0 THEN k < n ELSE k > n

\* df['pontuacao_composta'].diff().abs(), added as the column 'mudanca'.
ComMudanca(df) ==
    [k \in 1..Len(df) |->
        df[k] @@ [mudanca |-> IF k = 1 THEN NaN
                              ELSE Num(Abs(df[k].pontuacao_composta
                                           - df[k - 1].pontuacao_composta))]]

\* Variant of FiltrarViradas whose comparison is not strict.
FiltrarViradasNaoEstrito(df, limite) ==
    SelectSeq(df, LAMBDA r : ~r.mudanca.nan /\ r.mudanca.v >= limite)

\* df[df['mudanca'] > limite_mudanca]
FiltrarViradas(df, limite) == SelectSeq(df, LAMBDA r : MaiorQue(r.mudanca, limite))

\* Variant of DeslocarIndice that leaves the labels where they were.
DeslocarIndiceSemAjuste(pv) == pv

\* pontos_virada.index = pontos_virada.index - 1
DeslocarIndice(pv) == [k \in 1..Len(pv) |-> [pv[k] EXCEPT !.index = @ - 1]]

\* Variant of ShiftMenos1 that moves the values up by two rows.
ShiftMenos2(df) ==
    [k \in 1..Len(df) |->
        [index |-> df[k].index,
         valor |-> IF k + 1 < Len(df) THEN Num(df[k + 2].pontuacao_composta) ELSE NaN]]

\* df['pontuacao_composta'].shift(-1): the labels stay, the values move up.
ShiftMenos1(df) ==
    [k \in 1..Len(df) |->
        [index |-> df[k].index,
         valor |-> IF k < Len(df) THEN Num(df[k + 1].pontuacao_composta) ELSE NaN]]

\* serie.iloc[posicoes]: selection by 0-based position, negative from the end.
Iloc(serie, posicoes) ==
    [k \in 1..Len(posicoes) |->
        LET p == posicoes[k]
        IN  serie[(IF p < 0 THEN p + Len(serie) ELSE p) + 1]]

\* Column assignment aligns the series with the frame on the index label.
ValorAlinhado(serie, rotulo) ==
    IF \E k \in 1..Len(serie) : serie[k].index = rotulo
    THEN serie[CHOOSE k \in 1..Len(serie) : serie[k].index = rotulo].valor
    ELSE NaN

AtribuirPontuacao(pv, serie) ==
    [k \in 1..Len(pv) |->
        pv[k] @@ [pontuacao_no_ponto_virada |-> ValorAlinhado(serie, pv[k].index)]]

\* dropna(subset=['pontuacao_no_ponto_virada'])
DropNa(pv) == SelectSeq(pv, LAMBDA r : ~r.pontuacao_no_ponto_virada.nan)

\* iloc raises IndexError for a position outside [-len, len).
ForaDosLimites(serie, posicoes) ==
    \E k \in 1..Len(posicoes) : posicoes[k] >= Len(serie) \/ posicoes[k] < -Len(serie)

detectar_pontos_de_virada(df_pontuacoes, limite) ==
    IF df_pontuacoes = <<>> THEN [erro |-> "nenhum", df |-> <<>>]
    ELSE LET df            == ComMudanca(df_pontuacoes)
             pontos_virada == DeslocarIndice(FiltrarViradas(df, limite))
             posicoes      == [k \in 1..Len(pontos_virada) |-> pontos_virada[k].index]
             deslocada     == ShiftMenos1(df)
         IN  IF ForaDosLimites(deslocada, posicoes)
             THEN [erro |-> "IndexError", df |-> <<>>]
             ELSE [erro |-> "nenhum",
                   df |-> DropNa(AtribuirPontuacao(pontos_virada,
                                                   Iloc(deslocada, posicoes)))]

\* list(df_viradas['janela'] + 1): the numbers printed by the main block and
\* used as x-positions by visualizar_narrativa.
JanelasExibidas(pv) == [k \in 1..Len(pv) |-> pv[k].janela + 1]

(***************************************************************************)
(* contador_vicios.py                                                      *)
(***************************************************************************)
\* The lookup list handed to contar_muletas: "a" and the two-word "a b".
ListaMuletas == << <<97>>, <<97, 32, 98>> >>

\* Sum of the occurrences of every entry of the list in a text.
RECURSIVE TotalOcorrencias(_, _)
TotalOcorrencias(t, lista) ==
    IF lista = <<>> THEN 0
    ELSE Ocorrencias(t, Head(lista)) + TotalOcorrencias(t, Tail(lista))

\* round(x, 2) of the float n / d * 100, in hundredths (half to even).
Arredondar2(n, d) ==
    LET q == (n * 10000) \div d
        r == (n * 10000) % d
    IN  IF 2 * r > d \/ (2 * r = d /\ q % 2 = 1) THEN q + 1 ELSE q

\* sort_values(by='Ocorrências', ascending=False), as a stable insertion sort.
RECURSIVE InserirDesc(_, _)
InserirDesc(ordenado, r) ==
    IF ordenado = <<>> THEN <<r>>
    ELSE IF Head(ordenado).ocorrencias >= r.ocorrencias
         THEN <<Head(ordenado)>> \o InserirDesc(Tail(ordenado), r)
         ELSE <<r>> \o ordenado

RECURSIVE OrdenarDesc(_)
OrdenarDesc(df) ==
    IF df = <<>> THEN <<>>
    ELSE InserirDesc(OrdenarDesc(SubSeq(df, 1, Len(df) - 1)), df[Len(df)])

ContagemGeral(texto_normalizado, lista) ==
    LET total == TotalOcorrencias(texto_normalizado, lista)
    IN  OrdenarDesc(
          [k \in 1..Len(lista) |->
              LET oc == Ocorrencias(texto_normalizado, lista[k])
              IN  [muleta |-> lista[k],
                   ocorrencias |-> oc,
                   frequencia_relativa |-> IF total > 0 THEN Arredondar2(oc, total) ELSE 0]])

\* Variant of JanelaMuletas that divides by the configured window size.
JanelaMuletasPorTamanho(palavras, lista, w, k) ==
    LET janela_palavras == Fatia(palavras, k, k + w)
        contagem_janela == TotalOcorrencias(Join(janela_palavras), lista)
    IN  [janela |-> k \div w,
         janela_palavras |-> janela_palavras,
         total_muletas_na_janela |-> contagem_janela,
         frequencia_por_1000_palavras |-> DividirVezes(contagem_janela, w, 1000)]

\* One iteration of the window loop of contar_muletas.  The field
\* janela_palavras is the loop's local variable, kept to state the windowing
\* properties; the DataFrame has the other three columns.
JanelaMuletas(palavras, lista, w, k) ==
    LET janela_palavras == Fatia(palavras, k, k + w)
        contagem_janela == TotalOcorrencias(Join(janela_palavras), lista)
    IN  [janela |-> k \div w,
         janela_palavras |-> janela_palavras,
         total_muletas_na_janela |-> contagem_janela,
         frequencia_por_1000_palavras |->
             IF Len(janela_palavras) > 0
             THEN DividirVezes(contagem_janela, Len(janela_palavras), 1000)
             ELSE FracaoZero]

RECURSIVE JanelasMuletas(_, _, _, _)
JanelasMuletas(palavras, lista, w, k) ==
    IF ~NoRange(k, Len(palavras), w) THEN <<>>
    ELSE <<JanelaMuletas(palavras, lista, w, k)>>
         \o JanelasMuletas(palavras, lista, w, k + w)

contar_muletas(t, lista, w) ==
    IF t = <<>>
    THEN [erro |-> "nenhum", df_geral |-> <<>>, df_janela |-> <<>>]
    ELSE LET texto_normalizado == Lower(t)
             palavras          == Split(ReplaceNL(texto_normalizado))
         IN  IF w = 0
             THEN [erro |-> "ValueError", df_geral |-> <<>>, df_janela |-> <<>>]
             ELSE [erro |-> "nenhum",
                   df_geral |-> ContagemGeral(texto_normalizado, lista),
                   df_janela |-> ParaDataFrame(JanelasMuletas(palavras, lista, w, 0))]

(***************************************************************************)
(* Inputs of the windowing scripts.                                        *)
(***************************************************************************)
\* k words "a" separated by single spaces.
RECURSIVE Repetir(_)
Repetir(k) == IF k = 0 THEN <<>> ELSE IF k = 1 THEN <<97>> ELSE <<97, 32>> \o Repetir(k - 1)

\* Texts given to detector_virada: the scorer is opaque, so only the number
\* of words and of characters matters; <<32>> is a text of blanks only.
TextosVirada == {Repetir(k) : k \in 0..MaxPalavras} \cup {<<32>>}

AlfabetoVicios == {97, 98, 65, 32, 10}

TextosVicios == UNION {[1..k -> AlfabetoVicios] : k \in 0..MaxCaracteres}

TamanhosJanela == (-1)..MaxJanela

\* Compound scores the sentiment scorer may return, in hundredths.
Pontuacoes == {0, 39, 40, 81}

Limites == {40, 45}

(***************************************************************************)
(* SpecJanelas: detector_virada.py and contador_vicios.py.                 *)
(***************************************************************************)
InitJanelas ==
    /\ prog \in {"detector_virada", "contador_vicios"}
    /\ pc = "inicio"
    /\ erro = "nenhum"
    /\ ParadoExame
    /\ ParadoSom
    /\ ParadoRelatorio
    /\ ParadoCapitulos /\ ParadoMarcado /\ ParadoDistribuicao
    /\ texto \in (IF prog = "detector_virada" THEN TextosVirada ELSE TextosVicios)
    /\ tamanho_janela \in TamanhosJanela
    /\ limite_mudanca \in (IF prog = "detector_virada" THEN Limites ELSE {0})
    /\ i = 0
    /\ pontuacoes = <<>>
    /\ df_resultado = <<>>
    /\ df_viradas = <<>>
    /\ viradas_exibidas = <<>>
    /\ df_geral = <<>>
    /\ df_janela = <<>>
    /\ ParadoAgregacao
    /\ ParadoMonotonia
    /\ ParadoNota
    /\ ParadoNomes

\* dividir_e_analisar up to the first evaluation of range().
DividirInicio ==
    /\ prog = "detector_virada"
    /\ pc = "inicio"
    /\ IF TextoCurto(texto, tamanho_janela)
       THEN /\ pc' = "dividido"
            /\ erro' = erro
       ELSE IF tamanho_janela = 0
            THEN /\ pc' = "erro"
                 /\ erro' = "ValueError"
            ELSE /\ pc' = "laco"
                 /\ erro' = erro
    /\ UNCHANGED <<prog, varsJanelas>>
    /\ UNCHANGED <<varsAgregacao, varsMonotonia, varsNota, varsNomes>>
    /\ UNCHANGED <<varsExame, varsSom, varsRelatorio>>
    /\ UNCHANGED <<varsCapitulos, varsMarcado, varsDistribuicao>>

\* One iteration of the loop: the scorer returns some compound score.
DividirPasso ==
    /\ prog = "detector_virada"
    /\ pc = "laco"
    /\ LET palavras == Split(ReplaceNL(texto))
       IN  /\ NoRange(i, Len(palavras), tamanho_janela)
           /\ \E compound \in Pontuacoes :
                 pontuacoes' = Append(pontuacoes,
                     [janela |-> i \div tamanho_janela,
                      inicio_palavra |-> i,
                      janela_palavras |-> Fatia(palavras, i, i + tamanho_janela),
                      pontuacao_composta |-> compound])
    /\ i' = i + tamanho_janela
    /\ UNCHANGED <<prog, pc, erro, texto, tamanho_janela, limite_mudanca,
                   df_resultado, df_viradas, viradas_exibidas, df_geral, df_janela>>
    /\ UNCHANGED <<varsAgregacao, varsMonotonia, varsNota, varsNomes>>
    /\ UNCHANGED <<varsExame, varsSom, varsRelatorio>>
    /\ UNCHANGED <<varsCapitulos, varsMarcado, varsDistribuicao>>

\* The loop is exhausted: return pd.DataFrame(pontuacoes).
DividirFim ==
    /\ prog = "detector_virada"
    /\ pc = "laco"
    /\ ~NoRange(i, Len(Split(ReplaceNL(texto))), tamanho_janela)
    /\ df_resultado' = ParaDataFrame(pontuacoes)
    /\ pc' = "dividido"
    /\ UNCHANGED <<prog, erro, texto, tamanho_janela, limite_mudanca, i, pontuacoes,
                   df_viradas, viradas_exibidas, df_geral, df_janela>>
    /\ UNCHANGED <<varsAgregacao, varsMonotonia, varsNota, varsNomes>>
    /\ UNCHANGED <<varsExame, varsSom, varsRelatorio>>
    /\ UNCHANGED <<varsCapitulos, varsMarcado, varsDistribuicao>>

\* detectar_pontos_de_virada applied to the frame of dividir_e_analisar.
Detectar ==
    /\ prog = "detector_virada"
    /\ pc = "dividido"
    /\ LET r == detectar_pontos_de_virada(df_resultado, limite_mudanca)
       IN  /\ df_viradas' = r.df
           /\ erro' = r.erro
           /\ pc' = IF r.erro = "nenhum" THEN "detectado" ELSE "erro"
    /\ UNCHANGED <<prog, texto, tamanho_janela, limite_mudanca, i, pontuacoes,
                   df_resultado, viradas_exibidas, df_geral, df_janela>>
    /\ UNCHANGED <<varsAgregacao, varsMonotonia, varsNota, varsNomes>>
    /\ UNCHANGED <<varsExame, varsSom, varsRelatorio>>
    /\ UNCHANGED <<varsCapitulos, varsMarcado, varsDistribuicao>>

\* The main block prints the turning points and plots them.
Exibir ==
    /\ prog = "detector_virada"
    /\ pc = "detectado"
    /\ df_viradas # <<>>
    /\ viradas_exibidas' = JanelasExibidas(df_viradas)
    /\ pc' = "exibido"
    /\ UNCHANGED <<prog, erro, texto, tamanho_janela, limite_mudanca, i, pontuacoes,
                   df_resultado, df_viradas, df_geral, df_janela>>
    /\ UNCHANGED <<varsAgregacao, varsMonotonia, varsNota, varsNomes>>
    /\ UNCHANGED <<varsExame, varsSom, varsRelatorio>>
    /\ UNCHANGED <<varsCapitulos, varsMarcado, varsDistribuicao>>

\* contar_muletas(texto, lista, tamanho_janela)
ContarMuletas ==
    /\ prog = "contador_vicios"
    /\ pc = "inicio"
    /\ LET r == contar_muletas(texto, ListaMuletas, tamanho_janela)
       IN  /\ erro' = r.erro
           /\ df_geral' = r.df_geral
           /\ df_janela' = r.df_janela
           /\ pc' = IF r.erro = "nenhum" THEN "contado" ELSE "erro"
    /\ UNCHANGED <<prog, texto, tamanho_janela, limite_mudanca, i, pontuacoes,
                   df_resultado, df_viradas, viradas_exibidas>>
    /\ UNCHANGED <<varsAgregacao, varsMonotonia, varsNota, varsNomes>>
    /\ UNCHANGED <<varsExame, varsSom, varsRelatorio>>
    /\ UNCHANGED <<varsCapitulos, varsMarcado, varsDistribuicao>>

NextJanelas ==
    \/ DividirInicio
    \/ DividirPasso
    \/ DividirFim
    \/ Detectar
    \/ Exibir
    \/ ContarMuletas

SpecJanelas == InitJanelas /\ [][NextJanelas]_vars

(***************************************************************************)
(* Properties of detector_virada.py and contador_vicios.py (SpecJanelas).  *)
(***************************************************************************)
\* detectar_pontos_de_virada has returned.
ViradasProntas == prog = "detector_virada" /\ pc \in {"detectado", "exibido"}

\* Compound score of window w (0-based) of the frame given to the detector.
PontuacaoDe(w) == df_resultado[w + 1].pontuacao_composta

\* |score[w+1] - score[w]|
Delta(w) == Abs(PontuacaoDe(w + 1) - PontuacaoDe(w))

SeriePontuacoes == [k \in 1..Len(df_resultado) |-> df_resultado[k].pontuacao_composta]

C2_LimiarEstrito ==
    ViradasProntas =>
        /\ \A k \in 1..Len(df_viradas) : MaiorQue(df_viradas[k].mudanca, limite_mudanca)
        /\ \A w \in 0..(Len(df_resultado) - 2) :
              Delta(w) <= limite_mudanca =>
                  ~\E k \in 1..Len(df_viradas) : df_viradas[k].janela = w + 1
        /\ (SeriePontuacoes = <<0, 39, 81>> /\ limite_mudanca = 40) =>
              /\ Len(df_viradas) = 1
              /\ df_viradas[1].index = 1
              /\ df_viradas[1].janela = 2

\* The scenario series has been analysed, and so has a series holding a pair
\* whose delta equals the threshold.
C2_Testemunha ==
    /\ ViradasProntas
    /\ limite_mudanca = 40
    /\ SeriePontuacoes = <<0, 39, 81>>
    /\ Len(df_viradas) = 1

\* A pair whose delta is exactly the threshold was examined.
DeltaIgualAoLimite ==
    /\ ViradasProntas
    /\ \E w \in 0..(Len(df_resultado) - 2) : Delta(w) = limite_mudanca

\* Adjacent pairs whose delta exceeds the threshold.
ParesAcima == {w \in 0..(Len(df_resultado) - 2) : Delta(w) > limite_mudanca}

\* C3: one turning point per over-threshold pair, in ascending window order,
\* nothing merged or suppressed; zero or one window gives an empty result
\* and no error.
C3_UmaViradaPorPar ==
    /\ (prog = "detector_virada" /\ pc = "erro") => erro = "ValueError"
    /\ ViradasProntas =>
        /\ erro = "nenhum"
        /\ Len(df_viradas) = Cardinality(ParesAcima)
        /\ \A w \in ParesAcima :
              Cardinality({k \in 1..Len(df_viradas) : df_viradas[k].janela = w + 1}) = 1
        /\ \A k \in 1..(Len(df_viradas) - 1) :
              df_viradas[k].janela < df_viradas[k + 1].janela
        /\ Len(df_resultado) <= 1 => df_viradas = <<>>

\* Three consecutive over-threshold jumps gave three turning points.
C3_Testemunha ==
    /\ ViradasProntas
    /\ Len(df_resultado) = 4
    /\ Cardinality(ParesAcima) = 3
    /\ Len(df_viradas) = 3

\* A frame of a single window was given to the detector.
C3_UmaJanela == ViradasProntas /\ Len(df_resultado) = 1 /\ df_viradas = <<>>

\* The concatenation of the windows' words.
RECURSIVE PalavrasDasJanelas(_)
PalavrasDasJanelas(df) ==
    IF df = <<>> THEN <<>> ELSE Head(df).janela_palavras \o PalavrasDasJanelas(Tail(df))

RECURSIVE TotalPalavrasJanelas(_)
TotalPalavrasJanelas(df) ==
    IF df = <<>> THEN 0 ELSE Len(Head(df).janela_palavras) + TotalPalavrasJanelas(Tail(df))

\* The windows of df are numbered 0, 1, 2, ..., window k starts at word
\* k * w right after the previous window, and together they hold every word
\* of palavras exactly once.
JanelasCobrem(df, palavras, w) ==
    /\ \A k \in 1..Len(df) :
          /\ df[k].janela = k - 1
          /\ Len(df[k].janela_palavras) >= 1
          /\ Len(df[k].janela_palavras) <= w
          /\ TotalPalavrasJanelas(SubSeq(df, 1, k - 1)) = (k - 1) * w
    /\ TotalPalavrasJanelas(df) = Len(palavras)
    /\ PalavrasDasJanelas(df) = palavras

\* dividir_e_analisar returned the frame it built in its loop.
DividirConcluiu ==
    /\ prog = "detector_virada"
    /\ pc \in {"dividido", "detectado", "exibido"}
    /\ ~TextoCurto(texto, tamanho_janela)

\* C4: for W >= 1 the windows of dividir_e_analisar (text past the length
\* guard) and of contar_muletas are numbered in document order, contiguous
\* and non-overlapping, and their word counts sum to N, tail included.
C4_JanelasContiguas ==
    /\ (DividirConcluiu /\ tamanho_janela >= 1) =>
          /\ JanelasCobrem(df_resultado, Split(ReplaceNL(texto)), tamanho_janela)
          /\ \A k \in 1..Len(df_resultado) :
                /\ df_resultado[k].inicio_palavra = (k - 1) * tamanho_janela
                /\ k > 1 => df_resultado[k].inicio_palavra
                              = df_resultado[k - 1].inicio_palavra
                                + Len(df_resultado[k - 1].janela_palavras)
    /\ (prog = "contador_vicios" /\ pc = "contado" /\ tamanho_janela >= 1 /\ texto # <<>>) =>
          JanelasCobrem(df_janela, Split(ReplaceNL(Lower(texto))), tamanho_janela)

\* dividir_e_analisar built windows of which the last one is partial.
C4_Testemunha ==
    /\ DividirConcluiu
    /\ tamanho_janela = 3
    /\ Len(df_resultado) = 2
    /\ Len(df_resultado[2].janela_palavras) = 1

\* contar_muletas built windows of which the last one is partial.
C4_TestemunhaMuletas ==
    /\ prog = "contador_vicios" /\ pc = "contado"
    /\ tamanho_janela = 2
    /\ Len(df_janela) = 2
    /\ Len(df_janela[2].janela_palavras) = 1

\* C5: with a window size <= 0, or an empty text, the windowers produce zero
\* windows and raise no error.
C5_JanelaNaoPositiva ==
    (tamanho_janela <= 0 \/ texto = <<>>) =>
        /\ erro = "nenhum"
        /\ (prog = "detector_virada" /\ pc = "dividido") => df_resultado = <<>>
        /\ (prog = "contador_vicios" /\ pc = "contado") => df_janela = <<>>

(***************************************************************************)
(* Annotated texts: what the spaCy pipeline nlp(texto) returns.  A token   *)
(* carries the attributes the scripts read: is_alpha, pos_, whether its    *)
(* lemma is abstract (in ABSTRACT_LEMMAS or with an abstract suffix),      *)
(* whether its lemma ends with an action suffix, whether its morphology    *)
(* has VerbForm=Ger, and whether its lemma is in NOMINALIZING_VERBS.       *)
(***************************************************************************)
Token(alfa, classe, abstrato, acao, ger, nominalizador) ==
    [is_alpha |-> alfa, pos |-> classe, lemma_abstrato |-> abstrato,
     sufixo_acao |-> acao, gerundio |-> ger, lemma_nominalizador |-> nominalizador]

Tokens ==
    { Token(TRUE, "NOUN", TRUE, TRUE, FALSE, FALSE),     \* "realização"
      Token(TRUE, "NOUN", FALSE, FALSE, FALSE, FALSE),   \* "casa"
      Token(TRUE, "VERB", FALSE, FALSE, TRUE, FALSE),    \* "andando"
      Token(TRUE, "VERB", FALSE, FALSE, FALSE, TRUE),    \* "fazer"
      Token(TRUE, "DET", FALSE, FALSE, FALSE, FALSE),    \* "uma"
      Token(TRUE, "ADJ", FALSE, FALSE, FALSE, FALSE),    \* "belo"
      Token(FALSE, "PUNCT", FALSE, FALSE, FALSE, FALSE) }  \* "."

Docs == UNION {[1..k -> Tokens] : k \in 0..MaxTokens}

\* Number of tokens of a doc that are in the set S.
Contar(d, S) == Cardinality({k \in 1..Len(d) : d[k] \in S})

\* Variant of Razao without the zero-denominator guard.
RazaoSemGuarda(num, den, k) == DividirVezes(num, den, k)

\* num / den * k if den else 0.0
Razao(num, den, k) == IF den # 0 THEN DividirVezes(num, den, k) ELSE FracaoZero

\* Sum of two exact floats.
SomaFracao(a, b) == Fracao(a.n * b.d + b.n * a.d, a.d * b.d)

\* r > a / b and r < a / b for an exact float r.
MaiorFracao(r, a, b) == r.n * b > a * r.d

MenorFracao(r, a, b) == r.n * b < a * r.d

\* f"{x:.<casas>f}": x rounded to that many decimals, as an integer number
\* of units of the last decimal.
Formatar(r, casas) ==
    LET escala == IF casas = 1 THEN 10 ELSE IF casas = 2 THEN 100 ELSE 1000
        q == (r.n * escala) \div r.d
        resto == (r.n * escala) % r.d
    IN  IF 2 * resto > r.d \/ (2 * resto = r.d /\ q % 2 = 1) THEN q + 1 ELSE q

\* int(x)
Inteiro(r) == r.n \div r.d

(***************************************************************************)
(* analise_capitulos_avancada.py                                           *)
(***************************************************************************)
is_abstract_noun(token) == token.pos \in {"NOUN", "PROPN"} /\ token.lemma_abstrato

is_gerund_verb(token) == token.pos = "VERB" /\ token.gerundio

\* The while loop of contar_nominalizacoes from position j for the verb at
\* position v: 1 if a DET followed by an action noun is found within 4 tokens.
RECURSIVE ProcurarNominalizacao(_, _, _)
ProcurarNominalizacao(tokens, v, j) ==
    IF ~(j <= Len(tokens) /\ j <= v + 4) THEN 0
    ELSE IF /\ tokens[j].pos = "DET"
            /\ j + 1 <= Len(tokens)
            /\ tokens[j + 1].pos = "NOUN"
            /\ tokens[j + 1].sufixo_acao
         THEN 1
         ELSE ProcurarNominalizacao(tokens, v, j + 1)

RECURSIVE NominalizacoesDe(_, _)
NominalizacoesDe(tokens, v) ==
    IF v > Len(tokens) THEN 0
    ELSE (IF tokens[v].pos = "VERB" /\ tokens[v].lemma_nominalizador
          THEN ProcurarNominalizacao(tokens, v, v + 1) ELSE 0)
         + NominalizacoesDe(tokens, v + 1)

contar_nominalizacoes(d) == NominalizacoesDe(d, 1)

analisar_capitulo(d) ==
    LET total_tokens   == Contar(d, {t \in Tokens : t.is_alpha})
        total_nouns    == Contar(d, {t \in Tokens : t.is_alpha /\ t.pos \in {"NOUN", "PROPN"}})
        abstract_nouns == Contar(d, {t \in Tokens : t.is_alpha /\ t.pos \in {"NOUN", "PROPN"}
                                               /\ is_abstract_noun(t)})
        concrete_nouns == Contar(d, {t \in Tokens : t.is_alpha /\ t.pos \in {"NOUN", "PROPN"}
                                               /\ ~is_abstract_noun(t)})
        total_verbs    == Contar(d, {t \in Tokens : t.is_alpha /\ t.pos = "VERB"})
        gerunds        == Contar(d, {t \in Tokens : t.is_alpha /\ t.pos = "VERB"
                                               /\ is_gerund_verb(t)})
        nominalizacoes == contar_nominalizacoes(d)
    IN  [tokens |-> total_tokens,
         substantivos_total |-> total_nouns,
         substantivos_abstratos |-> abstract_nouns,
         substantivos_concretos |-> concrete_nouns,
         pct_abstratos |-> Razao(abstract_nouns, total_nouns, 100),
         pct_concretos |-> Razao(concrete_nouns, total_nouns, 100),
         verbos_total |-> total_verbs,
         verbos_gerundio |-> gerunds,
         pct_gerundio |-> Razao(gerunds, total_verbs, 100),
         densidade_verbal_pct |-> Razao(total_verbs, total_tokens, 100),
         nominalizacoes |-> nominalizacoes,
         nominalizacoes_por_10k |-> Razao(nominalizacoes, total_tokens, 10000)]

ChavesContagem ==
    {"tokens", "substantivos_total", "substantivos_abstratos", "substantivos_concretos",
     "verbos_total", "verbos_gerundio", "nominalizacoes"}

ChavesRazao ==
    {"pct_abstratos", "pct_concretos", "densidade_verbal_pct", "pct_gerundio",
     "nominalizacoes_por_10k"}

\* The value of a stats entry as the float that glob[k] += v adds.
ComoFloat(k, v) == IF k \in ChavesContagem THEN [n |-> v, d |-> 1] ELSE v

\* glob[k] after the accumulation loop: the sum of st["stats"][k] over the
\* chapters, 0.0 for an empty list (defaultdict(float)).
RECURSIVE SomaChave(_, _)
SomaChave(lista, k) ==
    IF lista = <<>> THEN FracaoZero
    ELSE SomaFracao(SomaChave(SubSeq(lista, 1, Len(lista) - 1), k),
                    ComoFloat(k, lista[Len(lista)].stats[k]))

Acumular(lista) == [k \in ChavesContagem \cup ChavesRazao |-> SomaChave(lista, k)]

\* glob["a"] / glob["b"] * k for two accumulated floats, guarded as the
\* "if glob[...]" blocks do.
RazaoGlobal(a, b, k) == IF b.n # 0 THEN Fracao(a.n * b.d * k, a.d * b.n) ELSE FracaoZero

\* Variant of Recalcular that forgets to recompute pct_gerundio.
RecalcularSemGerundio(g) ==
    [g EXCEPT
        !["pct_abstratos"] = RazaoGlobal(g["substantivos_abstratos"], g["substantivos_total"], 100),
        !["pct_concretos"] = RazaoGlobal(g["substantivos_concretos"], g["substantivos_total"], 100),
        !["densidade_verbal_pct"] = RazaoGlobal(g["verbos_total"], g["tokens"], 100),
        !["nominalizacoes_por_10k"] = RazaoGlobal(g["nominalizacoes"], g["tokens"], 10000)]

\* "Recalcular percentuais globais"
Recalcular(g) ==
    [g EXCEPT
        !["pct_abstratos"] = RazaoGlobal(g["substantivos_abstratos"], g["substantivos_total"], 100),
        !["pct_concretos"] = RazaoGlobal(g["substantivos_concretos"], g["substantivos_total"], 100),
        !["densidade_verbal_pct"] = RazaoGlobal(g["verbos_total"], g["tokens"], 100),
        !["nominalizacoes_por_10k"] = RazaoGlobal(g["nominalizacoes"], g["tokens"], 10000),
        !["pct_gerundio"] = RazaoGlobal(g["verbos_gerundio"], g["verbos_total"], 100)]

\* gerar_alertas of analise_capitulos_avancada.
gerar_alertas_capitulos(g) ==
    LET abstracao ==
            IF MaiorFracao(g["pct_abstratos"], 60, 1) THEN <<"MUITO abstrato">>
            ELSE IF MenorFracao(g["pct_abstratos"], 25, 1) THEN <<"Pouca abstração">>
            ELSE <<>>
        densidade ==
            IF MenorFracao(g["densidade_verbal_pct"], 10, 1) THEN <<"Poucos verbos">>
            ELSE IF MaiorFracao(g["densidade_verbal_pct"], 25, 1) THEN <<"Muitos verbos">>
            ELSE <<>>
        gerundio ==
            IF MaiorFracao(g["pct_gerundio"], 10, 1) THEN <<"Uso alto de gerúndio">> ELSE <<>>
        nominalizacao ==
            IF MaiorFracao(g["nominalizacoes_por_10k"], 30, 1)
            THEN <<"Muitas nominalizações">> ELSE <<>>
        lista == abstracao \o densidade \o gerundio \o nominalizacao
    IN  IF lista = <<>> THEN <<"Distribuição global razoavelmente equilibrada">> ELSE lista

\* The text salvar_relatorio writes: the global summary, the alerts and the
\* table with one line per chapter.
RelatorioCapitulos(lista, g, alertas) ==
    [resumo |->
        [tokens |-> Inteiro(g["tokens"]),
         substantivos_total |-> Inteiro(g["substantivos_total"]),
         substantivos_abstratos |-> Inteiro(g["substantivos_abstratos"]),
         pct_abstratos |-> Formatar(g["pct_abstratos"], 2),
         substantivos_concretos |-> Inteiro(g["substantivos_concretos"]),
         pct_concretos |-> Formatar(g["pct_concretos"], 2),
         verbos_total |-> Inteiro(g["verbos_total"]),
         verbos_gerundio |-> Inteiro(g["verbos_gerundio"]),
         pct_gerundio |-> Formatar(g["pct_gerundio"], 2),
         densidade_verbal_pct |-> Formatar(g["densidade_verbal_pct"], 2),
         nominalizacoes |-> Inteiro(g["nominalizacoes"]),
         nominalizacoes_por_10k |-> Formatar(g["nominalizacoes_por_10k"], 2)],
     alertas |-> alertas,
     tabela |->
        [k \in 1..Len(lista) |->
            [titulo |-> Fatia(lista[k].titulo, 0, 25),
             tokens |-> lista[k].stats.tokens,
             substantivos_total |-> lista[k].stats.substantivos_total,
             pct_abstratos |-> Formatar(lista[k].stats.pct_abstratos, 1),
             verbos_total |-> lista[k].stats.verbos_total,
             pct_gerundio |-> Formatar(lista[k].stats.pct_gerundio, 1),
             nominalizacoes_por_10k |-> Formatar(lista[k].stats.nominalizacoes_por_10k, 1)]]]

(***************************************************************************)
(* analise_classes.py                                                      *)
(***************************************************************************)
analisar_classes(d) ==
    LET total_tokens == Contar(d, {t \in Tokens : t.is_alpha})
        substantivos == Contar(d, {t \in Tokens : t.is_alpha /\ t.pos \in {"NOUN", "PROPN"}})
        adjetivos    == Contar(d, {t \in Tokens : t.is_alpha /\ t.pos = "ADJ"})
        verbos       == Contar(d, {t \in Tokens : t.is_alpha /\ t.pos = "VERB"})
    IN  [tokens |-> total_tokens,
         substantivos |-> substantivos,
         adjetivos |-> adjetivos,
         verbos |-> verbos,
         n_v |-> Razao(substantivos, verbos, 1),
         adj_n |-> Razao(adjetivos, substantivos, 1),
         densidade_verbos |-> Razao(verbos, total_tokens, 1),
         adj_por_1000 |-> Razao(adjetivos, total_tokens, 1000)]

\* gerar_alertas of analise_classes.
gerar_alertas(st) ==
    LET nv ==
            IF MenorFracao(st.n_v, 8, 10) THEN <<"N/V baixo demais">>
            ELSE IF MaiorFracao(st.n_v, 18, 10) THEN <<"N/V alto">>
            ELSE <<>>
        adjn ==
            IF MaiorFracao(st.adj_n, 22, 100) THEN <<"ADJ/N elevado">>
            ELSE IF MenorFracao(st.adj_n, 6, 100) THEN <<"ADJ/N muito baixo">>
            ELSE <<>>
        densidade ==
            IF MenorFracao(st.densidade_verbos, 10, 100) THEN <<"Poucos verbos">>
            ELSE IF MaiorFracao(st.densidade_verbos, 22, 100) THEN <<"Muitos verbos">>
            ELSE <<>>
        adj1000 ==
            IF MaiorFracao(st.adj_por_1000, 120, 1) THEN <<"Adjetivos/1000 muito alto">>
            ELSE IF MenorFracao(st.adj_por_1000, 50, 1) THEN <<"Adjetivos/1000 muito baixo">>
            ELSE <<>>
        lista == nv \o adjn \o densidade \o adj1000
    IN  IF lista = <<>> THEN <<"Distribuição linguística equilibrada">> ELSE lista

\* The text salvar_relatorio of analise_classes writes.
RelatorioClasses(st, alertas) ==
    [tokens |-> st.tokens,
     substantivos |-> st.substantivos,
     adjetivos |-> st.adjetivos,
     verbos |-> st.verbos,
     n_v |-> Formatar(st.n_v, 3),
     adj_n |-> Formatar(st.adj_n, 3),
     densidade_verbos |-> Formatar([n |-> st.densidade_verbos.n * 100,
                                    d |-> st.densidade_verbos.d], 2),
     adj_por_1000 |-> Formatar(st.adj_por_1000, 1),
     alertas |-> alertas]

(***************************************************************************)
(* SpecAgregacao: analise_capitulos_avancada.py and analise_classes.py.    *)
(***************************************************************************)
InitAgregacao ==
    /\ prog \in {"analise_capitulos", "analise_classes"}
    /\ pc = IF prog = "analise_capitulos" THEN "analisando" ELSE "inicio"
    /\ erro = "nenhum"
    /\ ParadoExame
    /\ ParadoSom
    /\ ParadoRelatorio
    /\ ParadoCapitulos /\ ParadoMarcado /\ ParadoDistribuicao
    /\ ParadoJanelas
    /\ ParadoAgregacao
    /\ ParadoMonotonia
    /\ ParadoNota
    /\ ParadoNomes

\* One iteration of the loop of main: a chapter is annotated and analysed.
\* Its title is "c" followed by its number.
AnalisarCapitulo ==
    /\ prog = "analise_capitulos"
    /\ pc = "analisando"
    /\ Len(capitulos_stats) < MaxCapitulos
    /\ \E d \in Docs :
          capitulos_stats' = Append(capitulos_stats,
              [titulo |-> <<99, 49 + Len(capitulos_stats)>>, stats |-> analisar_capitulo(d)])
    /\ UNCHANGED <<prog, pc, erro, extracao, doc, stats, glob, avisos, relatorio>>
    /\ UNCHANGED <<varsJanelas, varsMonotonia, varsNota, varsNomes>>
    /\ UNCHANGED <<varsExame, varsSom, varsRelatorio>>
    /\ UNCHANGED <<varsCapitulos, varsMarcado, varsDistribuicao>>

\* salvar_relatorio(capitulos_stats, caminho_saida); it accepts any list,
\* the empty one included.
SalvarRelatorioCapitulos ==
    /\ prog = "analise_capitulos"
    /\ pc = "analisando"
    /\ LET g == Recalcular(Acumular(capitulos_stats))
           alertas == gerar_alertas_capitulos(g)
       IN  /\ glob' = g
           /\ avisos' = alertas
           /\ relatorio' = RelatorioCapitulos(capitulos_stats, g, alertas)
    /\ pc' = "salvo"
    /\ UNCHANGED <<prog, erro, extracao, doc, stats, capitulos_stats>>
    /\ UNCHANGED <<varsJanelas, varsMonotonia, varsNota, varsNomes>>
    /\ UNCHANGED <<varsExame, varsSom, varsRelatorio>>
    /\ UNCHANGED <<varsCapitulos, varsMarcado, varsDistribuicao>>

\* extrair_pdf: the text of the PDF, or "" when extract_text raises.
ExtrairPdf ==
    /\ prog = "analise_classes"
    /\ pc = "inicio"
    /\ \/ \E d \in Docs : extracao' = "ok" /\ doc' = d
       \/ extracao' = "falhou" /\ doc' = <<>>
    /\ pc' = "extraido"
    /\ UNCHANGED <<prog, erro, stats, capitulos_stats, glob, avisos, relatorio>>
    /\ UNCHANGED <<varsJanelas, varsMonotonia, varsNota, varsNomes>>
    /\ UNCHANGED <<varsExame, varsSom, varsRelatorio>>
    /\ UNCHANGED <<varsCapitulos, varsMarcado, varsDistribuicao>>

AnalisarClasses ==
    /\ prog = "analise_classes"
    /\ pc = "extraido"
    /\ stats' = analisar_classes(doc)
    /\ pc' = "analisado"
    /\ UNCHANGED <<prog, erro, extracao, doc, capitulos_stats, glob, avisos, relatorio>>
    /\ UNCHANGED <<varsJanelas, varsMonotonia, varsNota, varsNomes>>
    /\ UNCHANGED <<varsExame, varsSom, varsRelatorio>>
    /\ UNCHANGED <<varsCapitulos, varsMarcado, varsDistribuicao>>

GerarAlertasClasses ==
    /\ prog = "analise_classes"
    /\ pc = "analisado"
    /\ avisos' = gerar_alertas(stats)
    /\ pc' = "alertado"
    /\ UNCHANGED <<prog, erro, extracao, doc, stats, capitulos_stats, glob, relatorio>>
    /\ UNCHANGED <<varsJanelas, varsMonotonia, varsNota, varsNomes>>
    /\ UNCHANGED <<varsExame, varsSom, varsRelatorio>>
    /\ UNCHANGED <<varsCapitulos, varsMarcado, varsDistribuicao>>

SalvarRelatorioClasses ==
    /\ prog = "analise_classes"
    /\ pc = "alertado"
    /\ relatorio' = RelatorioClasses(stats, avisos)
    /\ pc' = "salvo"
    /\ UNCHANGED <<prog, erro, extracao, doc, stats, capitulos_stats, glob, avisos>>
    /\ UNCHANGED <<varsJanelas, varsMonotonia, varsNota, varsNomes>>
    /\ UNCHANGED <<varsExame, varsSom, varsRelatorio>>
    /\ UNCHANGED <<varsCapitulos, varsMarcado, varsDistribuicao>>

NextAgregacao ==
    \/ AnalisarCapitulo
    \/ SalvarRelatorioCapitulos
    \/ ExtrairPdf
    \/ AnalisarClasses
    \/ GerarAlertasClasses
    \/ SalvarRelatorioClasses

SpecAgregacao == InitAgregacao /\ [][NextAgregacao]_vars

(***************************************************************************)
(* Properties of the aggregation scripts (SpecAgregacao).                  *)
(***************************************************************************)
\* salvar_relatorio of analise_capitulos_avancada has returned.
RelatorioSalvo == prog = "analise_capitulos" /\ pc = "salvo"

\* Sum over the chapters of the count field k.
RECURSIVE TotalContagem(_, _)
TotalContagem(lista, k) ==
    IF lista = <<>> THEN 0 ELSE Head(lista).stats[k] + TotalContagem(Tail(lista), k)

\* The ratio field k is numerador / denominador * fator.
ComponentesRazao ==
    { [razao |-> "pct_abstratos", numerador |-> "substantivos_abstratos",
       denominador |-> "substantivos_total", fator |-> 100],
      [razao |-> "pct_concretos", numerador |-> "substantivos_concretos",
       denominador |-> "substantivos_total", fator |-> 100],
      [razao |-> "densidade_verbal_pct", numerador |-> "verbos_total",
       denominador |-> "tokens", fator |-> 100],
      [razao |-> "pct_gerundio", numerador |-> "verbos_gerundio",
       denominador |-> "verbos_total", fator |-> 100],
      [razao |-> "nominalizacoes_por_10k", numerador |-> "nominalizacoes",
       denominador |-> "tokens", fator |-> 10000] }

\* Sum of the per-chapter values of the ratio field k.
RECURSIVE SomaDasRazoes(_, _)
SomaDasRazoes(lista, k) ==
    IF lista = <<>> THEN FracaoZero
    ELSE SomaFracao(Head(lista).stats[k], SomaDasRazoes(Tail(lista), k))

\* Mean of the per-chapter values of the ratio field k (non-empty list).
MediaDasRazoes(lista, k) ==
    LET soma == SomaDasRazoes(lista, k) IN Fracao(soma.n, soma.d * Len(lista))

\* C6: in salvar_relatorio every global count is the sum of the chapter
\* counts and each of the five global ratios is recomputed from the summed
\* numerator and the summed denominator (0 when that denominator is 0); it
\* is not obtained by summing or averaging the per-chapter ratios.
C6_RazoesRecalculadas ==
    RelatorioSalvo =>
        /\ \A k \in ChavesContagem :
              glob[k] = [n |-> TotalContagem(capitulos_stats, k), d |-> 1]
        /\ \A c \in ComponentesRazao :
              LET num == TotalContagem(capitulos_stats, c.numerador)
                  den == TotalContagem(capitulos_stats, c.denominador)
              IN  glob[c.razao] = IF den = 0 THEN FracaoZero ELSE Fracao(num * c.fator, den)

\* Two chapters of unequal size whose global share of abstract nouns differs
\* from the sum and from the mean of the two per-chapter shares.
C6_Testemunha ==
    /\ RelatorioSalvo
    /\ Len(capitulos_stats) = 2
    /\ capitulos_stats[1].stats.substantivos_total # capitulos_stats[2].stats.substantivos_total
    /\ glob["pct_abstratos"] # SomaDasRazoes(capitulos_stats, "pct_abstratos")
    /\ glob["pct_abstratos"] # MediaDasRazoes(capitulos_stats, "pct_abstratos")
    /\ glob["pct_gerundio"] # SomaDasRazoes(capitulos_stats, "pct_gerundio")
    /\ glob["pct_gerundio"] # MediaDasRazoes(capitulos_stats, "pct_gerundio")

\* A float that is a finite, non-negative number.
Finito(r) == r.d > 0 /\ r.n >= 0

\* analisar_classes has returned.
ClassesAnalisadas == prog = "analise_classes" /\ pc \in {"analisado", "alertado", "salvo"}

\* C7: a ratio whose denominator is zero is 0, and no ratio is an exception
\* or a non-finite value, in analisar_capitulo, analisar_classes and the
\* global aggregation, which over an empty list gives all zeros.
C7_DenominadorZero ==
    /\ prog \in {"analise_capitulos", "analise_classes"} => erro = "nenhum"
    /\ \A k \in 1..Len(capitulos_stats) :
          LET st == capitulos_stats[k].stats
          IN  /\ \A c \in ComponentesRazao :
                    /\ Finito(st[c.razao])
                    /\ st[c.denominador] = 0 => st[c.razao] = FracaoZero
    /\ ClassesAnalisadas =>
          /\ Finito(stats.n_v) /\ Finito(stats.adj_n)
          /\ Finito(stats.densidade_verbos) /\ Finito(stats.adj_por_1000)
          /\ stats.verbos = 0 => stats.n_v = FracaoZero
          /\ stats.substantivos = 0 => stats.adj_n = FracaoZero
          /\ stats.tokens = 0 => (stats.densidade_verbos = FracaoZero
                                  /\ stats.adj_por_1000 = FracaoZero)
    /\ RelatorioSalvo =>
          /\ \A c \in ComponentesRazao :
                /\ Finito(glob[c.razao])
                /\ glob[c.denominador] = FracaoZero => glob[c.razao] = FracaoZero
          /\ capitulos_stats = <<>> =>
                \A k \in ChavesContagem \cup ChavesRazao : glob[k] = FracaoZero

\* A chapter without any verb was analysed and aggregated: the gerund share
\* has a zero denominator per chapter and globally.
C7_Testemunha ==
    /\ RelatorioSalvo
    /\ Len(capitulos_stats) = 1
    /\ capitulos_stats[1].stats.tokens > 0
    /\ capitulos_stats[1].stats.verbos_total = 0
    /\ glob["verbos_total"] = FracaoZero
    /\ glob["pct_gerundio"] = FracaoZero

\* The aggregation ran over an empty list of chapters.
C7_ListaVazia == RelatorioSalvo /\ capitulos_stats = <<>>

\* analisar_classes ran on a text without alphabetic tokens.
C7_ClassesVazio == ClassesAnalisadas /\ stats.tokens = 0

(***************************************************************************)
(* monotonia_analisador.py and medir_monotonia of frenesi_literario_ultra. *)
(* A paragraph is given by the word counts of the sentences that the       *)
(* sentence segmenter finds in it.  ir is kept as its square, an exact     *)
(* fraction: ir < t is ir^2 < t^2 because neither is negative.             *)
(***************************************************************************)
\* sum((x - media) ** 2), with media = soma / n, multiplied by n * n.
RECURSIVE SomaDesvios(_, _, _)
SomaDesvios(tamanhos, n, soma) ==
    IF tamanhos = <<>> THEN 0
    ELSE (n * Head(tamanhos) - soma) * (n * Head(tamanhos) - soma)
         + SomaDesvios(Tail(tamanhos), n, soma)

\* (statistics.pstdev(tamanhos) / statistics.mean(tamanhos)) ** 2, 0 when
\* the mean is 0:  pstdev^2 = SomaDesvios / n^3  and  mean^2 = soma^2 / n^2.
IrQuadrado(tamanhos) ==
    LET n    == Len(tamanhos)
        soma == SomaSeq(tamanhos)
    IN  IF soma = 0 THEN FracaoZero
        ELSE Fracao(SomaDesvios(tamanhos, n, soma), n * soma * soma)

\* def cat(n)
cat(n) == IF n < 10 THEN "C" ELSE IF n <= 20 THEN "M" ELSE "L"

\* Variant of Alternancias whose range starts at 0, so that the first
\* category is also compared with the last one (categorias[-1]).
AlternanciasCircular(categorias) ==
    Cardinality({k \in 1..Len(categorias) :
                    categorias[k] # categorias[IF k = 1 THEN Len(categorias) ELSE k - 1]})

\* sum(1 for i in range(1, len(categorias)) if categorias[i] != categorias[i-1])
RECURSIVE Alternancias(_)
Alternancias(categorias) ==
    IF Len(categorias) < 2 THEN 0
    ELSE (IF categorias[2] # categorias[1] THEN 1 ELSE 0) + Alternancias(Tail(categorias))

\* ir < a / 100, on the square of ir.
IrMenor(ir2, a) == ir2.n * 10000 < a * a * ir2.d

\* Variant of Classificar whose first band ignores the switch count.
ClassificarSemAlternancia(ir2, sw) ==
    IF IrMenor(ir2, 15) THEN "Monótono"
    ELSE IF IrMenor(ir2, 30) THEN "Ritmo moderado"
    ELSE IF IrMenor(ir2, 55) THEN "Variado"
    ELSE "Irregular"

\* The if / elif chain of medir_monotonia in monotonia_analisador.
Classificar(ir2, sw) ==
    IF IrMenor(ir2, 15) /\ sw <= 1 THEN "Monótono"
    ELSE IF IrMenor(ir2, 30) THEN "Ritmo moderado"
    ELSE IF IrMenor(ir2, 55) THEN "Variado"
    ELSE "Irregular"

\* The if / elif chain of medir_monotonia in frenesi_literario_ultra.
ClassificarUltra(ir2, sw) ==
    IF IrMenor(ir2, 15) /\ sw <= 1 THEN "Monótono"
    ELSE IF IrMenor(ir2, 30) THEN "Ritmo moderado"
    ELSE IF IrMenor(ir2, 55) THEN "Variado"
    ELSE "Irregular / Caótico"

\* medir_monotonia of monotonia_analisador.py
medir_monotonia(tamanhos) ==
    IF tamanhos = <<>>
    THEN [frases |-> <<>>, ir2 |-> FracaoZero, sw |-> 0, nivel |-> "Indeterminado"]
    ELSE LET ir2 == IrQuadrado(tamanhos)
             sw  == Alternancias([k \in 1..Len(tamanhos) |-> cat(tamanhos[k])])
         IN  [frases |-> tamanhos, ir2 |-> ir2, sw |-> sw, nivel |-> Classificar(ir2, sw)]

\* medir_monotonia of frenesi_literario_ultra.py
medir_monotonia_ultra(tamanhos) ==
    IF Len(tamanhos) = 0
    THEN [frases |-> <<>>, ir2 |-> FracaoZero, sw |-> 0, nivel |-> "Indeterminado"]
    ELSE LET ir2 == IrQuadrado(tamanhos)
             sw  == Alternancias([k \in 1..Len(tamanhos) |-> cat(tamanhos[k])])
         IN  [frases |-> tamanhos, ir2 |-> ir2, sw |-> sw, nivel |-> ClassificarUltra(ir2, sw)]

\* Sentence lengths tried: short, medium (just past the limit) and long.
TamanhosFrase == {9, 10, 21}

\* Paragraphs tried.  The listed ones have ir exactly 0.15, 0.30 and 0.55,
\* a single empty sentence (mean 0), and an empty sentence before a short one.
Paragrafos ==
    UNION {[1..k -> TamanhosFrase] : k \in 0..MaxFrases}
    \cup {<<17, 23>>, <<7, 13>>, <<9, 31>>, <<0>>, <<0, 9>>}

(***************************************************************************)
(* SpecMonotonia                                                           *)
(***************************************************************************)
InitMonotonia ==
    /\ prog \in {"monotonia_analisador", "frenesi_ultra_monotonia"}
    /\ pc = "analisando"
    /\ erro = "nenhum"
    /\ ParadoExame
    /\ ParadoSom
    /\ ParadoRelatorio
    /\ ParadoCapitulos /\ ParadoMarcado /\ ParadoDistribuicao
    /\ ParadoJanelas
    /\ ParadoAgregacao
    /\ ParadoMonotonia
    /\ ParadoNota
    /\ ParadoNomes

\* One iteration of the loop of analisar_texto.
AnalisarParagrafo ==
    /\ prog = "monotonia_analisador"
    /\ pc = "analisando"
    /\ Len(resultados) < MaxParagrafos
    /\ \E p \in Paragrafos :
          resultados' = Append(resultados,
              [num |-> Len(resultados) + 1, texto |-> p] @@ medir_monotonia(p))
    /\ UNCHANGED <<prog, pc, erro, varsJanelas, varsAgregacao, varsNota, varsNomes>>
    /\ UNCHANGED <<varsExame, varsSom, varsRelatorio>>
    /\ UNCHANGED <<varsCapitulos, varsMarcado, varsDistribuicao>>

\* One iteration of the loop of analisar_monotonia_por_paragrafo.
AnalisarParagrafoUltra ==
    /\ prog = "frenesi_ultra_monotonia"
    /\ pc = "analisando"
    /\ Len(resultados) < MaxParagrafos
    /\ \E p \in Paragrafos :
          LET m == medir_monotonia_ultra(p)
          IN  resultados' = Append(resultados,
                  [numero |-> Len(resultados) + 1, paragrafo |-> p, frases |-> m.frases,
                   ir2 |-> m.ir2, sw |-> m.sw, nivel |-> m.nivel])
    /\ UNCHANGED <<prog, pc, erro, varsJanelas, varsAgregacao, varsNota, varsNomes>>
    /\ UNCHANGED <<varsExame, varsSom, varsRelatorio>>
    /\ UNCHANGED <<varsCapitulos, varsMarcado, varsDistribuicao>>

\* The loop ends and the list of results is returned.
FimAnalise ==
    /\ prog \in {"monotonia_analisador", "frenesi_ultra_monotonia"}
    /\ pc = "analisando"
    /\ pc' = "analisado"
    /\ UNCHANGED <<prog, erro, varsJanelas, varsAgregacao, varsMonotonia, varsNota, varsNomes>>
    /\ UNCHANGED <<varsExame, varsSom, varsRelatorio>>
    /\ UNCHANGED <<varsCapitulos, varsMarcado, varsDistribuicao>>

NextMonotonia ==
    \/ AnalisarParagrafo
    \/ AnalisarParagrafoUltra
    \/ FimAnalise

SpecMonotonia == InitMonotonia /\ [][NextMonotonia]_vars

(***************************************************************************)
(* Properties of the monotony analysers (SpecMonotonia).                   *)
(***************************************************************************)
\* The sentence lengths of the paragraph of a result.
FrasesDe(r) == IF prog = "monotonia_analisador" THEN r.texto ELSE r.paragrafo

\* Length category as the band table describes it.
Categoria(n) == IF n < 10 THEN "curta" ELSE IF n > 20 THEN "longa" ELSE "media"

\* Number of adjacent sentences whose category differs.
Trocas(f) == Cardinality({k \in 2..Len(f) : Categoria(f[k]) # Categoria(f[k - 1])})

\* (population standard deviation / mean)^2 < (a / 100)^2, from the sum and
\* the sum of squares; ir counts as 0 when the mean is 0.
IrAbaixo(f, a) ==
    LET n  == Len(f)
        s  == SomaSeq(f)
        q  == SomaSeq([k \in 1..n |-> f[k] * f[k]])
    IN  IF s = 0 THEN TRUE ELSE (n * q - s * s) * 10000 < a * a * s * s

\* The ordered band table; ultimo is the label of the last band.
TabelaFaixas(f, ultimo) ==
    << [casa |-> Len(f) = 0, rotulo |-> "Indeterminado"],
       [casa |-> IrAbaixo(f, 15) /\ Trocas(f) <= 1, rotulo |-> "Monótono"],
       [casa |-> IrAbaixo(f, 30), rotulo |-> "Ritmo moderado"],
       [casa |-> IrAbaixo(f, 55), rotulo |-> "Variado"],
       [casa |-> TRUE, rotulo |-> ultimo] >>

\* The label of the first band that matches.
PrimeiraFaixa(f, ultimo) ==
    LET t == TabelaFaixas(f, ultimo)
        k == CHOOSE j \in 1..Len(t) : t[j].casa /\ \A h \in 1..(j - 1) : ~t[h].casa
    IN  t[k].rotulo

\* C8 as stated: every paragraph, in both implementations, gets the label
\* of the first matching band of  Indeterminado / Monótono / Ritmo moderado
\* / Variado / Irregular.
C8_FaixasComoEnunciado ==
    \A k \in 1..Len(resultados) :
        resultados[k].nivel = PrimeiraFaixa(FrasesDe(resultados[k]), "Irregular")

\* C8, amended: every paragraph gets exactly the label of the first matching
\* band of the ordered table, sw being the number of category switches; the
\* last band is labelled 'Irregular' by monotonia_analisador and
\* 'Irregular / Caótico' by frenesi_literario_ultra.
C8_PrimeiraFaixaVence ==
    \A k \in 1..Len(resultados) :
        LET r == resultados[k]
            f == FrasesDe(r)
        IN  /\ r.sw = (IF Len(f) = 0 THEN 0 ELSE Trocas(f))
            /\ r.nivel = PrimeiraFaixa(f, IF prog = "monotonia_analisador"
                                          THEN "Irregular" ELSE "Irregular / Caótico")

\* A paragraph with ir < 0.15 but two category switches fell through the
\* first band to 'Ritmo moderado', and another one reached the last band.
C8_Testemunha ==
    /\ Len(resultados) = 2
    /\ FrasesDe(resultados[1]) = <<9, 10, 9>>
    /\ resultados[1].sw = 2
    /\ resultados[1].nivel = "Ritmo moderado"
    /\ FrasesDe(resultados[2]) = <<9, 31>>
    /\ resultados[2].nivel \in {"Irregular", "Irregular / Caótico"}

(***************************************************************************)
(* frenesi_score of frenesi_literario_ultra.py.  ttr and indice_repeticao  *)
(* are in hundredths; mtld and tamanho_medio_frase are whole numbers; the  *)
(* score is a whole number of points.                                      *)
(***************************************************************************)
\* stats.get(k, 0)
Get(st, k) == IF k \in DOMAIN st THEN st[k] ELSE 0

\* max(0.0, min(100.0, score))
Clamp(score) == Max(0, Min(100, score))

\* Variant of frenesi_score in which the MTLD rule is chained to the TTR rule
\* by elif, so that it applies only when no TTR rule did.
frenesi_score_encadeado(st) ==
    LET score0 == 50
        ttr    == Get(st, "ttr")
        mtld   == Get(st, "mtld")
        score1 == IF 20 <= ttr /\ ttr <= 40 THEN score0 + 10
                  ELSE IF ttr < 18 \/ ttr > 45 THEN score0 - 5
                  ELSE IF mtld >= 50 THEN score0 + 10
                  ELSE IF mtld < 30 THEN score0 - 5
                  ELSE score0
        vf     == Get(st, "verbos_fortes")
        vfr    == Get(st, "verbos_fracos")
        total_v == vf + vfr
        ratio_fortes == IF total_v > 0 THEN Dividir(vf, total_v) ELSE FracaoZero
        score3 == IF ~MenorFracao(ratio_fortes, 25, 100) THEN score1 + 10
                  ELSE IF MenorFracao(ratio_fortes, 10, 100) /\ total_v > 0 THEN score1 - 10
                  ELSE score1
        adv_mente == Get(st, "adv_mente")
        total_palavras == Max(Get(st, "total_palavras"), 1)
        score4 == IF MaiorFracao(Dividir(adv_mente, total_palavras), 3, 100)
                  THEN score3 - 5 ELSE score3
        rep    == Get(st, "indice_repeticao")
        score5 == IF rep < 78 THEN score4 + 5
                  ELSE IF rep > 88 THEN score4 - 5
                  ELSE score4
        tmf    == Get(st, "tamanho_medio_frase")
        score6 == IF 12 <= tmf /\ tmf <= 24 THEN score5 + 5
                  ELSE IF tmf > 32 \/ tmf < 8 THEN score5 - 5
                  ELSE score5
    IN  [stats |-> [ratio_verbos_fortes |-> ratio_fortes] @@ st,
         bruto |-> score6,
         score |-> Clamp(score6)]

\* Variant of frenesi_score that starts from the score already stored in the
\* dict, when there is one, instead of the baseline.
frenesi_score_acumulado(st) ==
    LET score0 == IF "nota_frenesi" \in DOMAIN st THEN st["nota_frenesi"] ELSE 50
        ttr    == Get(st, "ttr")
        score1 == IF 20 <= ttr /\ ttr <= 40 THEN score0 + 10
                  ELSE IF ttr < 18 \/ ttr > 45 THEN score0 - 5
                  ELSE score0
        mtld   == Get(st, "mtld")
        score2 == IF mtld >= 50 THEN score1 + 10
                  ELSE IF mtld < 30 THEN score1 - 5
                  ELSE score1
        vf     == Get(st, "verbos_fortes")
        vfr    == Get(st, "verbos_fracos")
        total_v == vf + vfr
        ratio_fortes == IF total_v > 0 THEN Dividir(vf, total_v) ELSE FracaoZero
        score3 == IF ~MenorFracao(ratio_fortes, 25, 100) THEN score2 + 10
                  ELSE IF MenorFracao(ratio_fortes, 10, 100) /\ total_v > 0 THEN score2 - 10
                  ELSE score2
        adv_mente == Get(st, "adv_mente")
        total_palavras == Max(Get(st, "total_palavras"), 1)
        score4 == IF MaiorFracao(Dividir(adv_mente, total_palavras), 3, 100)
                  THEN score3 - 5 ELSE score3
        rep    == Get(st, "indice_repeticao")
        score5 == IF rep < 78 THEN score4 + 5
                  ELSE IF rep > 88 THEN score4 - 5
                  ELSE score4
        tmf    == Get(st, "tamanho_medio_frase")
        score6 == IF 12 <= tmf /\ tmf <= 24 THEN score5 + 5
                  ELSE IF tmf > 32 \/ tmf < 8 THEN score5 - 5
                  ELSE score5
    IN  [stats |-> [ratio_verbos_fortes |-> ratio_fortes] @@ st,
         bruto |-> score6,
         score |-> Clamp(score6)]

\* Variant of frenesi_score whose low-repetition bonus is 10, like the
\* bonuses of the first three groups.
frenesi_score_repeticao10(st) ==
    LET score0 == 50
        ttr    == Get(st, "ttr")
        score1 == IF 20 <= ttr /\ ttr <= 40 THEN score0 + 10
                  ELSE IF ttr < 18 \/ ttr > 45 THEN score0 - 5
                  ELSE score0
        mtld   == Get(st, "mtld")
        score2 == IF mtld >= 50 THEN score1 + 10
                  ELSE IF mtld < 30 THEN score1 - 5
                  ELSE score1
        vf     == Get(st, "verbos_fortes")
        vfr    == Get(st, "verbos_fracos")
        total_v == vf + vfr
        ratio_fortes == IF total_v > 0 THEN Dividir(vf, total_v) ELSE FracaoZero
        score3 == IF ~MenorFracao(ratio_fortes, 25, 100) THEN score2 + 10
                  ELSE IF MenorFracao(ratio_fortes, 10, 100) /\ total_v > 0 THEN score2 - 10
                  ELSE score2
        adv_mente == Get(st, "adv_mente")
        total_palavras == Max(Get(st, "total_palavras"), 1)
        score4 == IF MaiorFracao(Dividir(adv_mente, total_palavras), 3, 100)
                  THEN score3 - 5 ELSE score3
        rep    == Get(st, "indice_repeticao")
        score5 == IF rep < 78 THEN score4 + 10
                  ELSE IF rep > 88 THEN score4 - 5
                  ELSE score4
        tmf    == Get(st, "tamanho_medio_frase")
        score6 == IF 12 <= tmf /\ tmf <= 24 THEN score5 + 5
                  ELSE IF tmf > 32 \/ tmf < 8 THEN score5 - 5
                  ELSE score5
    IN  [stats |-> [ratio_verbos_fortes |-> ratio_fortes] @@ st,
         bruto |-> score6,
         score |-> Clamp(score6)]

\* frenesi_score(stats): the dict as the call leaves it, the score before
\* the clamp, and the value returned.
frenesi_score(st) ==
    LET score0 == 50
        ttr    == Get(st, "ttr")
        score1 == IF 20 <= ttr /\ ttr <= 40 THEN score0 + 10
                  ELSE IF ttr < 18 \/ ttr > 45 THEN score0 - 5
                  ELSE score0
        mtld   == Get(st, "mtld")
        score2 == IF mtld >= 50 THEN score1 + 10
                  ELSE IF mtld < 30 THEN score1 - 5
                  ELSE score1
        vf     == Get(st, "verbos_fortes")
        vfr    == Get(st, "verbos_fracos")
        total_v == vf + vfr
        ratio_fortes == IF total_v > 0 THEN Dividir(vf, total_v) ELSE FracaoZero
        score3 == IF ~MenorFracao(ratio_fortes, 25, 100) THEN score2 + 10
                  ELSE IF MenorFracao(ratio_fortes, 10, 100) /\ total_v > 0 THEN score2 - 10
                  ELSE score2
        adv_mente == Get(st, "adv_mente")
        total_palavras == Max(Get(st, "total_palavras"), 1)
        score4 == IF MaiorFracao(Dividir(adv_mente, total_palavras), 3, 100)
                  THEN score3 - 5 ELSE score3
        rep    == Get(st, "indice_repeticao")
        score5 == IF rep < 78 THEN score4 + 5
                  ELSE IF rep > 88 THEN score4 - 5
                  ELSE score4
        tmf    == Get(st, "tamanho_medio_frase")
        score6 == IF 12 <= tmf /\ tmf <= 24 THEN score5 + 5
                  ELSE IF tmf > 32 \/ tmf < 8 THEN score5 - 5
                  ELSE score5
    IN  [stats |-> [ratio_verbos_fortes |-> ratio_fortes] @@ st,
         bruto |-> score6,
         score |-> Clamp(score6)]

\* The metrics dicts handed to frenesi_score: the empty dict and the dicts
\* examinar_texto can build from these values.
EntradasNota ==
    {<<>>} \cup
    [ttr : {17, 19, 30, 46},
     mtld : {20, 40, 60},
     verbos_fortes : {0, 1},
     verbos_fracos : {0, 1, 5},
     adv_mente : {0, 1},
     total_palavras : {0, 10, 100},
     indice_repeticao : {50, 80, 90},
     tamanho_medio_frase : {0, 10, 15, 40}]

(***************************************************************************)
(* SpecNota                                                                *)
(***************************************************************************)
InitNota ==
    /\ prog = "frenesi_ultra_nota"
    /\ pc = "inicio"
    /\ erro = "nenhum"
    /\ ParadoExame
    /\ ParadoSom
    /\ ParadoRelatorio
    /\ ParadoCapitulos /\ ParadoMarcado /\ ParadoDistribuicao
    /\ ParadoJanelas
    /\ ParadoAgregacao
    /\ ParadoMonotonia
    /\ stats_nota \in EntradasNota
    /\ nota = 0
    /\ ParadoNomes

\* stats["nota_frenesi"] = frenesi_score(stats), the end of examinar_texto.
CalcularNota ==
    /\ prog = "frenesi_ultra_nota"
    /\ pc = "inicio"
    /\ LET r == frenesi_score(stats_nota)
       IN  /\ nota' = r.score
           /\ stats_nota' = [nota_frenesi |-> r.score] @@ r.stats
    /\ pc' = "pontuado"
    /\ UNCHANGED <<prog, erro, varsJanelas, varsAgregacao, varsMonotonia, varsNomes>>
    /\ UNCHANGED <<varsExame, varsSom, varsRelatorio>>
    /\ UNCHANGED <<varsCapitulos, varsMarcado, varsDistribuicao>>

\* stats["nota_frenesi"] = frenesi_score(stats) once more, on the dict the
\* first call left; nota keeps the value the first call returned.
CalcularNovamente ==
    /\ prog = "frenesi_ultra_nota"
    /\ pc = "pontuado"
    /\ LET r == frenesi_score(stats_nota)
       IN  stats_nota' = [nota_frenesi |-> r.score] @@ r.stats
    /\ pc' = "repontuado"
    /\ UNCHANGED <<prog, erro, nota>>
    /\ UNCHANGED <<varsJanelas, varsAgregacao, varsMonotonia, varsNomes>>
    /\ UNCHANGED <<varsExame, varsSom, varsRelatorio>>
    /\ UNCHANGED <<varsCapitulos, varsMarcado, varsDistribuicao>>

NextNota ==
    \/ CalcularNota
    \/ CalcularNovamente

SpecNota == InitNota /\ [][NextNota]_vars

(***************************************************************************)
(* Properties of frenesi_score (SpecNota).                                 *)
(***************************************************************************)
\* The adjustment of each rule group, as a function of that group's metrics
\* alone.
AjusteTTR(st) ==
    LET ttr == Get(st, "ttr")
    IN  IF ttr >= 20 /\ ttr <= 40 THEN 10 ELSE IF ttr < 18 \/ ttr > 45 THEN -5 ELSE 0

AjusteMTLD(st) ==
    LET mtld == Get(st, "mtld")
    IN  IF mtld >= 50 THEN 10 ELSE IF mtld < 30 THEN -5 ELSE 0

\* Strong verbs are at least 25% of the classified verbs: 4 * vf >= vf + vfr;
\* less than 10% of a non-empty total: 10 * vf < vf + vfr.
AjusteVerbos(st) ==
    LET vf  == Get(st, "verbos_fortes")
        tot == vf + Get(st, "verbos_fracos")
    IN  IF tot > 0 /\ 4 * vf >= tot THEN 10
        ELSE IF tot > 0 /\ 10 * vf < tot THEN -10
        ELSE 0

AjusteAdverbios(st) ==
    LET adv == Get(st, "adv_mente")
        tot == IF Get(st, "total_palavras") < 1 THEN 1 ELSE Get(st, "total_palavras")
    IN  IF 100 * adv > 3 * tot THEN -5 ELSE 0

AjusteRepeticao(st) ==
    LET rep == Get(st, "indice_repeticao")
    IN  IF rep < 78 THEN 5 ELSE IF rep > 88 THEN -5 ELSE 0

AjusteFrase(st) ==
    LET tmf == Get(st, "tamanho_medio_frase")
    IN  IF tmf >= 12 /\ tmf <= 24 THEN 5 ELSE IF tmf > 32 \/ tmf < 8 THEN -5 ELSE 0

\* 50 plus the six adjustments.
NotaBruta(st) ==
    50 + AjusteTTR(st) + AjusteMTLD(st) + AjusteVerbos(st)
       + AjusteAdverbios(st) + AjusteRepeticao(st) + AjusteFrase(st)

\* C9: the score is the baseline 50 plus the adjustment of each of the six
\* rule groups, each depending on its own metrics only, clamped into
\* [0, 100]: 0 <= score <= 100, a raw value above 100 gives 100 and a raw
\* value below 0 gives 0.
C9_NotaLimitada ==
    (prog = "frenesi_ultra_nota" /\ pc = "pontuado") =>
        LET bruta == NotaBruta(stats_nota)
        IN  /\ nota >= 0
            /\ nota <= 100
            /\ bruta > 100 => nota = 100
            /\ bruta < 0 => nota = 0
            /\ (bruta >= 0 /\ bruta <= 100) => nota = bruta

\* A text on which every rule group adds its bonus has been scored, and the
\* MTLD bonus was added on top of the TTR bonus.
C9_Testemunha ==
    /\ prog = "frenesi_ultra_nota"
    /\ pc = "pontuado"
    /\ AjusteTTR(stats_nota) = 10
    /\ AjusteMTLD(stats_nota) = 10
    /\ nota = 90

(***************************************************************************)
(* verificador_nomes.py                                                    *)
(* padrao_nomes = r'\b[A-Z][a-z]{2,}(?:\s[A-Z][a-z]{2,})*\b'               *)
(***************************************************************************)
\* Variant of EhMaiuscula for a pattern compiled with re.IGNORECASE.
EhMaiusculaSemCaixa(c) == (c >= 65 /\ c <= 90) \/ (c >= 97 /\ c <= 122)

EhMaiuscula(c) == c >= 65 /\ c <= 90

EhMinuscula(c) == c >= 97 /\ c <= 122

\* Number of characters of the maximal run of [a-z] that starts at p.
RECURSIVE RunMinusculas(_, _)
RunMinusculas(t, p) ==
    IF p <= Len(t) /\ EhMinuscula(t[p]) THEN 1 + RunMinusculas(t, p + 1) ELSE 0

\* [A-Z][a-z]{2,} at position p: the position right after it, 0 if it does
\* not match.  Only the maximal run can be followed by \s or by \b.
FimPalavraCapitalizada(t, p) ==
    IF p <= Len(t) /\ EhMaiuscula(t[p]) /\ RunMinusculas(t, p + 1) >= 2
    THEN p + 1 + RunMinusculas(t, p + 1)
    ELSE 0

\* (?:\s[A-Z][a-z]{2,})*\b from position e: the group is repeated greedily,
\* and on failure of the final \b the repetitions are given back one by one.
\* The position right after the match, 0 if there is none.
RECURSIVE FimNome(_, _)
FimNome(t, e) ==
    LET proximo == IF e <= Len(t) /\ EhEspaco(t[e])
                   THEN FimPalavraCapitalizada(t, e + 1) ELSE 0
        adiante == IF proximo > 0 THEN FimNome(t, proximo) ELSE 0
    IN  IF adiante > 0 THEN adiante
        ELSE IF Fronteira(t, e) THEN e
        ELSE 0

\* The whole pattern at position p.
FimCasamento(t, p) ==
    IF Fronteira(t, p) /\ FimPalavraCapitalizada(t, p) > 0
    THEN FimNome(t, FimPalavraCapitalizada(t, p))
    ELSE 0

\* re.findall(padrao_nomes, texto): the matches, left to right, not
\* overlapping.
RECURSIVE FindallNomes(_, _)
FindallNomes(t, p) ==
    IF p > Len(t) THEN <<>>
    ELSE LET fim == FimCasamento(t, p)
         IN  IF fim > 0 THEN <<SubSeq(t, p, fim - 1)>> \o FindallNomes(t, fim)
             ELSE FindallNomes(t, p + 1)

\* variantes[nome_base][nome] += 1 for the names kept by the length filter.
Agrupaveis(nomes) == SelectSeq(nomes, LAMBDA n : ~(Len(Lower(n)) < 4))

\* The dict variantes: nome_base -> (variante -> contagem).
Variantes(nomes) ==
    LET validos == Agrupaveis(nomes)
        bases   == {Lower(validos[k]) : k \in 1..Len(validos)}
    IN  [b \in bases |->
            [v \in {validos[k] : k \in {j \in 1..Len(validos) : Lower(validos[j]) = b}} |->
                Cardinality({k \in 1..Len(validos) : validos[k] = v})]]

\* sum(d.values())
RECURSIVE SomaValores(_)
SomaValores(d) ==
    IF DOMAIN d = {} THEN 0
    ELSE LET k == CHOOSE x \in DOMAIN d : TRUE
         IN  d[k] + SomaValores([x \in DOMAIN d \ {k} |-> d[x]])

verificar_consistencia_nomes(t, minimo) ==
    IF t = <<>> THEN <<>>
    ELSE LET variantes == Variantes(FindallNomes(t, 1))
             relatados == {b \in DOMAIN variantes :
                              /\ ~(SomaValores(variantes[b]) < minimo)
                              /\ Cardinality(DOMAIN variantes[b]) > 1}
         IN  [b \in relatados |-> variantes[b]]

\* Pieces the texts are made of: "Kael", "kael", "KAEL", " ", "," and "\n".
Pecas ==
    { <<75, 97, 101, 108>>, <<107, 97, 101, 108>>, <<75, 65, 69, 76>>,
      <<32>>, <<44>>, <<10>> }

RECURSIVE Concatenar(_)
Concatenar(ps) == IF ps = <<>> THEN <<>> ELSE Head(ps) \o Concatenar(Tail(ps))

Kaelin == <<75, 97, 101, 108, 105, 110>>

kaelin == <<107, 97, 101, 108, 105, 110>>

Bryn == <<66, 114, 121, 110>>

Brynn == <<66, 114, 121, 110, 110>>

\* The pieces of the scenario text: 'Kaelin' 9 times, 'kaelin' once, 'Bryn'
\* twice and 'Brynn' once, each followed by ". ".
PecasCenario ==
    <<Kaelin, Bryn, Kaelin, Brynn, Kaelin, Kaelin, Kaelin, Kaelin, Kaelin,
      Bryn, Kaelin, kaelin, Kaelin>>

TextoCenario == Concatenar([k \in 1..Len(PecasCenario) |-> PecasCenario[k] \o <<46, 32>>])

TextosNomes ==
    {Concatenar(ps) : ps \in UNION {[1..k -> Pecas] : k \in 0..MaxPecas}}
    \cup {TextoCenario}

Cortes == {1, 2, 5}

(***************************************************************************)
(* SpecNomes                                                               *)
(***************************************************************************)
InitNomes ==
    /\ prog = "verificador_nomes"
    /\ pc = "inicio"
    /\ erro = "nenhum"
    /\ ParadoExame
    /\ ParadoSom
    /\ ParadoRelatorio
    /\ ParadoCapitulos /\ ParadoMarcado /\ ParadoDistribuicao
    /\ ParadoJanelas
    /\ ParadoAgregacao
    /\ ParadoMonotonia
    /\ ParadoNota
    /\ texto_nomes \in TextosNomes
    /\ min_ocorrencias \in Cortes
    /\ inconsistencias = <<>>

\* inconsistencias = verificar_consistencia_nomes(texto, min_ocorrencias)
VerificarNomes ==
    /\ prog = "verificador_nomes"
    /\ pc = "inicio"
    /\ inconsistencias' = verificar_consistencia_nomes(texto_nomes, min_ocorrencias)
    /\ pc' = "verificado"
    /\ UNCHANGED <<prog, erro, texto_nomes, min_ocorrencias>>
    /\ UNCHANGED <<varsJanelas, varsAgregacao, varsMonotonia, varsNota>>
    /\ UNCHANGED <<varsExame, varsSom, varsRelatorio>>
    /\ UNCHANGED <<varsCapitulos, varsMarcado, varsDistribuicao>>

NextNomes == VerificarNomes

SpecNomes == InitNomes /\ [][NextNomes]_vars

(***************************************************************************)
(* Properties of verificador_nomes (SpecNomes).                            *)
(***************************************************************************)
EhLetra(c) == EhMaiuscula(c) \/ EhMinuscula(c)

\* The words of a text: its maximal runs of letters.
RECURSIVE PalavrasDe(_, _, _, _)
PalavrasDe(t, k, atual, acc) ==
    IF k > Len(t)
    THEN IF atual = <<>> THEN acc ELSE Append(acc, atual)
    ELSE IF EhLetra(t[k])
         THEN PalavrasDe(t, k + 1, Append(atual, t[k]), acc)
         ELSE PalavrasDe(t, k + 1, <<>>, IF atual = <<>> THEN acc ELSE Append(acc, atual))

PalavrasDoTexto(t) == PalavrasDe(t, 1, <<>>, <<>>)

\* The occurrences in the text of the case variants of the base name b.
OcorrenciasDaBase(t, b) ==
    LET ps == PalavrasDoTexto(t) IN {k \in 1..Len(ps) : Lower(ps[k]) = b}

GrafiasDaBase(t, b) ==
    LET ps == PalavrasDoTexto(t) IN {ps[k] : k \in OcorrenciasDaBase(t, b)}

BasesDoTexto(t) ==
    LET ps == PalavrasDoTexto(t) IN {Lower(ps[k]) : k \in 1..Len(ps)}

\* C10: in the scenario text with cutoff 5 exactly one group is reported,
\* 'kaelin', with 10 occurrences and 2 spellings; in general a base name is
\* reported iff its case variants occur at least min_ocorrencias times in
\* total and it has at least two distinct spellings.
C10_CenarioKaelin ==
    (prog = "verificador_nomes" /\ pc = "verificado") =>
        /\ (texto_nomes = TextoCenario /\ min_ocorrencias = 5) =>
              /\ DOMAIN inconsistencias = {kaelin}
              /\ SomaValores(inconsistencias[kaelin]) = 10
              /\ Cardinality(DOMAIN inconsistencias[kaelin]) = 2
        /\ \A b \in BasesDoTexto(texto_nomes) \cup DOMAIN inconsistencias :
              b \in DOMAIN inconsistencias <=>
                  /\ Cardinality(OcorrenciasDaBase(texto_nomes, b)) >= min_ocorrencias
                  /\ Cardinality(GrafiasDaBase(texto_nomes, b)) >= 2

\* The scenario text has been verified with cutoff 5 and nothing is reported.
CenarioSemRelato ==
    /\ prog = "verificador_nomes"
    /\ pc = "verificado"
    /\ texto_nomes = TextoCenario
    /\ min_ocorrencias = 5
    /\ inconsistencias = <<>>

(***************************************************************************)
(* Degenerate input.                                                       *)
(***************************************************************************)
\* The metrics frenesi_score reads are all zero, as for an empty text.
MetricasZeradas(st) ==
    \A k \in {"ttr", "mtld", "verbos_fortes", "verbos_fracos", "adv_mente",
              "total_palavras", "indice_repeticao", "tamanho_medio_frase"} : Get(st, k) = 0

\* C11: empty input gets an explicit neutral outcome: a paragraph with no
\* sentence is 'Indeterminado'; gerar_alertas of analise_classes on the
\* all-zero stats of an empty text gives no substantive warning; and
\* frenesi_score on all-zero stats makes no adjustment to the baseline 50.
C11_EntradaVaziaNeutra ==
    /\ prog \in {"monotonia_analisador", "frenesi_ultra_monotonia"} =>
          \A k \in 1..Len(resultados) :
              resultados[k].frases = <<>> => resultados[k].nivel = "Indeterminado"
    /\ (prog = "analise_classes" /\ pc \in {"alertado", "salvo"} /\ stats.tokens = 0) =>
          avisos = <<"Distribuição linguística equilibrada">>
    /\ (prog = "frenesi_ultra_nota" /\ pc = "pontuado" /\ MetricasZeradas(stats_nota)) =>
          nota = 50

(***************************************************************************)
(* The metric functions of frenesi_literario_ultimate.py and               *)
(* frenesi_literario_ultra.py.  A text is given as the sentences the       *)
(* segmenter finds in it, each the sequence of its words (lower case); the *)
(* empty text and a text of white space only have no sentence.  The values *)
(* frenesi_score reads are kept in its units: ttr and indice_repeticao in  *)
(* hundredths and tamanho_medio_frase in words, rounded down.              *)
(***************************************************************************)
\* "ser" is a weak verb and a stop word, "correr" a strong verb, and
\* "lentamente" an adverb in -mente.
Vocabulario == {"ser", "correr", "lentamente"}

STOPWORDS == {"ser"}

VERBOS_FRACOS == {"ser"}

VERBOS_FORTES == {"correr"}

TerminaEmMente == {"lentamente"}

FrasesExame == UNION {[1..k -> Vocabulario] : k \in 1..MaxPalavrasFrase}

TextosExame == UNION {[1..k -> FrasesExame] : k \in 0..MaxFrasesExame}

\* re.findall(r"\w+", texto.lower())
PalavrasExame(t) == Concatenar(t)

\* len(set(palavras))
Tipos(palavras) == Cardinality({palavras[k] : k \in 1..Len(palavras)})

\* Number of elements of a list that are in the set S.
Quantos(lista, S) == Cardinality({k \in 1..Len(lista) : lista[k] \in S})

RECURSIVE MaxSeq(_)
MaxSeq(s) == IF Len(s) = 1 THEN s[1] ELSE Max(Head(s), MaxSeq(Tail(s)))

RECURSIVE MinSeq(_)
MinSeq(s) == IF Len(s) = 1 THEN s[1] ELSE Min(Head(s), MinSeq(Tail(s)))

\* A float as a whole number of 1/escala, rounded down.
EmUnidades(r, escala) == (r.n * escala) \div r.d

\* sum(ttrs) for the blocks that start at 0-based position k, k + janela, ...
\* and have exactly janela words; with the number of such blocks.
RECURSIVE TTRsDosBlocos(_, _, _)
TTRsDosBlocos(palavras, k, janela) ==
    IF ~NoRange(k, Len(palavras), janela) THEN [soma |-> FracaoZero, n |-> 0]
    ELSE LET b     == Fatia(palavras, k, k + janela)
             resto == TTRsDosBlocos(palavras, k + janela, janela)
         IN  IF Len(b) = janela
             THEN [soma |-> SomaFracao(resto.soma, Fracao(Tipos(b), Len(b))),
                   n |-> resto.n + 1]
             ELSE resto

\* densidade_lexical of both scripts (janela >= 1): the guard of
\* frenesi_literario_ultra for no words returns the same 0 as the empty
\* list of blocks does.
densidade_lexical(palavras, janela) ==
    LET r == TTRsDosBlocos(palavras, 0, janela)
    IN  IF r.n # 0 THEN Fracao(r.soma.n, r.soma.d * r.n) ELSE FracaoZero

\* indice_repeticao of frenesi_literario_ultra.
indice_repeticao(palavras) ==
    IF palavras = <<>> THEN [erro |-> "nenhum", valor |-> FracaoZero]
    ELSE [erro |-> "nenhum",
          valor |-> Fracao(Len(palavras) - Tipos(palavras), Len(palavras))]

\* repeticao of frenesi_literario_ultimate: the division is not guarded.
repeticao(palavras) ==
    IF Len(palavras) = 0 THEN [erro |-> "ZeroDivisionError", valor |-> <<>>]
    ELSE [erro |-> "nenhum",
          valor |-> Fracao(Len(palavras) - Tipos(palavras), Len(palavras))]

\* Counter(palavras_filtradas).most_common(20), as word -> count.
MaisComuns(palavras) ==
    LET filtradas == SelectSeq(palavras, LAMBDA w : w \notin STOPWORDS)
    IN  [w \in {filtradas[k] : k \in 1..Len(filtradas)} |-> Quantos(filtradas, {w})]

JanelaPadrao == 100

\* What the external LexicalRichness measures of a text with words: ttr is
\* types / tokens; mtld and hdd are values of the library.
MedidasLexicais(palavras) ==
    [ttr : {EmUnidades(Fracao(Tipos(palavras), Len(palavras)), 100)},
     mtld : {20, 60},
     hdd : {70, 80}]

\* examinar of frenesi_literario_ultimate, given what LexicalRichness
\* measures.  statistics.mean, max and min of an empty list raise.
examinar(t, lex) ==
    LET palavras == PalavrasExame(t)
        tamanhos_frase == [k \in 1..Len(t) |-> Len(t[k])]
    IN  IF tamanhos_frase = <<>> THEN [erro |-> "StatisticsError", valor |-> <<>>]
        ELSE [erro |-> "nenhum",
              valor |->
                [total_palavras |-> Len(palavras),
                 total_frases |-> Len(t),
                 tamanho_medio_frase |->
                     EmUnidades(Fracao(SomaSeq(tamanhos_frase), Len(tamanhos_frase)), 1),
                 tamanho_max_frase |-> MaxSeq(tamanhos_frase),
                 tamanho_min_frase |-> MinSeq(tamanhos_frase),
                 top_20_palavras |-> MaisComuns(palavras),
                 adv_mente |-> Quantos(palavras, TerminaEmMente),
                 verbos_fracos |-> Quantos(palavras, VERBOS_FRACOS),
                 ttr |-> lex.ttr,
                 mtld |-> lex.mtld,
                 hdd |-> lex.hdd,
                 densidade_lexical |-> densidade_lexical(palavras, JanelaPadrao),
                 indice_repeticao |-> EmUnidades(repeticao(palavras).valor, 100)]]

\* examinar_texto of frenesi_literario_ultra; lex is used only when the
\* cleaned text is not empty.
examinar_texto(t, lex) ==
    LET palavras == PalavrasExame(t)
        tamanhos_frase == [k \in 1..Len(t) |-> Len(t[k])]
        vazio == t = <<>>
        st == [total_palavras |-> Len(palavras),
               total_frases |-> Len(t),
               tamanho_medio_frase |->
                   IF tamanhos_frase # <<>>
                   THEN EmUnidades(Fracao(SomaSeq(tamanhos_frase), Len(tamanhos_frase)), 1)
                   ELSE 0,
               tamanho_max_frase |-> IF tamanhos_frase # <<>> THEN MaxSeq(tamanhos_frase) ELSE 0,
               tamanho_min_frase |-> IF tamanhos_frase # <<>> THEN MinSeq(tamanhos_frase) ELSE 0,
               top_20_palavras |-> MaisComuns(palavras),
               adv_mente |-> Quantos(palavras, TerminaEmMente),
               verbos_fracos |-> Quantos(palavras, VERBOS_FRACOS),
               verbos_fortes |-> Quantos(palavras, VERBOS_FORTES),
               ttr |-> IF vazio THEN 0 ELSE lex.ttr,
               mtld |-> IF vazio THEN 0 ELSE lex.mtld,
               hdd |-> IF vazio THEN 0 ELSE lex.hdd,
               densidade_lexical |-> densidade_lexical(palavras, JanelaPadrao),
               indice_repeticao |-> EmUnidades(indice_repeticao(palavras).valor, 100)]
        r == frenesi_score(st)
    IN  [erro |-> "nenhum", valor |-> [nota_frenesi |-> r.score] @@ r.stats]

\* Window sizes handed to densidade_lexical.
JanelasDensidade == {1, 2, JanelaPadrao}

(***************************************************************************)
(* SpecExame: each metric function applied to a text.                      *)
(***************************************************************************)
InitExame ==
    /\ prog \in {"frenesi_ultimate", "frenesi_ultra"}
    /\ pc = "inicio"
    /\ erro = "nenhum"
    /\ ParadoJanelas
    /\ ParadoAgregacao
    /\ ParadoMonotonia
    /\ ParadoNota
    /\ ParadoNomes
    /\ ParadoSom
    /\ ParadoRelatorio
    /\ ParadoCapitulos /\ ParadoMarcado /\ ParadoDistribuicao
    /\ texto_exame \in TextosExame
    /\ exame = <<>>

\* The function returned r, or raised r.erro.
Retornou(funcao, r) ==
    /\ pc' = funcao
    /\ erro' = r.erro
    /\ exame' = r.valor
    /\ UNCHANGED <<prog, texto_exame>>
    /\ UNCHANGED <<varsJanelas, varsAgregacao, varsMonotonia, varsNota, varsNomes>>
    /\ UNCHANGED <<varsSom, varsRelatorio>>
    /\ UNCHANGED <<varsCapitulos, varsMarcado, varsDistribuicao>>

Examinar ==
    /\ prog = "frenesi_ultimate"
    /\ pc = "inicio"
    /\ IF texto_exame = <<>>
       THEN Retornou("examinar", examinar(texto_exame, <<>>))
       ELSE \E lex \in MedidasLexicais(PalavrasExame(texto_exame)) :
                Retornou("examinar", examinar(texto_exame, lex))

Repeticao ==
    /\ prog = "frenesi_ultimate"
    /\ pc = "inicio"
    /\ Retornou("repeticao", repeticao(PalavrasExame(texto_exame)))

ExaminarTexto ==
    /\ prog = "frenesi_ultra"
    /\ pc = "inicio"
    /\ IF texto_exame = <<>>
       THEN Retornou("examinar_texto", examinar_texto(texto_exame, <<>>))
       ELSE \E lex \in MedidasLexicais(PalavrasExame(texto_exame)) :
                Retornou("examinar_texto", examinar_texto(texto_exame, lex))

IndiceRepeticao ==
    /\ prog = "frenesi_ultra"
    /\ pc = "inicio"
    /\ Retornou("indice_repeticao", indice_repeticao(PalavrasExame(texto_exame)))

DensidadeLexical ==
    /\ prog \in {"frenesi_ultimate", "frenesi_ultra"}
    /\ pc = "inicio"
    /\ \E janela \in JanelasDensidade :
          Retornou("densidade_lexical",
                   [erro |-> "nenhum",
                    valor |-> densidade_lexical(PalavrasExame(texto_exame), janela)])

NextExame ==
    \/ Examinar
    \/ Repeticao
    \/ ExaminarTexto
    \/ IndiceRepeticao
    \/ DensidadeLexical

SpecExame == InitExame /\ [][NextExame]_vars

(***************************************************************************)
(* Properties of the metric functions (SpecExame).                         *)
(***************************************************************************)
\* The metrics of a stats dict are all zero and its word list is empty.
ExameZerado(st) ==
    /\ \A k \in {"total_palavras", "total_frases", "tamanho_medio_frase",
                 "tamanho_max_frase", "tamanho_min_frase", "adv_mente",
                 "verbos_fracos", "ttr", "mtld", "hdd", "indice_repeticao"} : st[k] = 0
    /\ st.densidade_lexical = FracaoZero
    /\ st.top_20_palavras = <<>>

\* C12: on a text with no word and no sentence, examinar, repeticao,
\* examinar_texto, densidade_lexical and indice_repeticao raise nothing and
\* return a zero-valued result.
C12_TextoVazioSemErro ==
    (prog \in {"frenesi_ultimate", "frenesi_ultra"} /\ texto_exame = <<>> /\ pc # "inicio") =>
        /\ erro = "nenhum"
        /\ pc \in {"examinar", "examinar_texto"} => ExameZerado(exame)
        /\ pc \in {"repeticao", "indice_repeticao", "densidade_lexical"} => exame = FracaoZero

\* examinar_texto of frenesi_literario_ultra returned for the empty text.
ExameVazioUltra ==
    /\ prog = "frenesi_ultra"
    /\ pc = "examinar_texto"
    /\ texto_exame = <<>>
    /\ erro = "nenhum"
    /\ ExameZerado(exame)

(***************************************************************************)
(* Extraction failure.                                                     *)
(***************************************************************************)
\* C13: when the text extraction of the source document fails, the run
\* stops before a report is written; no report is made from empty text.
C13_FalhaSemRelatorio ==
    (prog = "analise_classes" /\ extracao = "falhou") => relatorio = <<>>

(***************************************************************************)
(* detectar_aliteracoes_assonancias.py: fonemas_palavra, primeiro_fonema   *)
(* and detectar_aliteracao.  A sentence is the list frase.split(); the     *)
(* external phonemizer is a function that, for each word, either raises or *)
(* returns a string, given here as the list of its space-separated parts.  *)
(***************************************************************************)
\* "--" has no alphabetic character.
PalavrasSom == {"pato", "pula", "--"}

SemLetras == {"--"}

\* What phonemize(palavra, language="pt-br") can do.
Levanta == [levanta |-> TRUE, partes |-> <<>>]

Devolve(partes) == [levanta |-> FALSE, partes |-> partes]

Comportamentos == {Levanta, Devolve(<<>>), Devolve(<<"p", "a">>), Devolve(<<"b", "o">>)}

Fonemizadores == [PalavrasSom \ SemLetras -> Comportamentos]

FrasesSom == UNION {[1..k -> PalavrasSom] : k \in 0..MaxPalavrasSom}

\* fonemas_palavra: the bare except returns [] when phonemize raises; a
\* blank string gives [] and any other string its parts.
fonemas_palavra(fz, palavra) ==
    IF fz[palavra].levanta THEN [erro |-> "nenhum", valor |-> <<>>]
    ELSE [erro |-> "nenhum", valor |-> fz[palavra].partes]

\* primeiro_fonema: f[0] if f else ""
primeiro_fonema(fz, palavra) ==
    LET f == fonemas_palavra(fz, palavra)
    IN  [erro |-> f.erro, valor |-> IF f.valor # <<>> THEN f.valor[1] ELSE ""]

\* The for loop of detectar_aliteracao from index k (1-based), with the
\* group being built and the groups closed so far.
RECURSIVE AgruparIguais(_, _, _, _, _)
AgruparIguais(palavras, fon, k, atual, grupos) ==
    IF k > Len(palavras)
    THEN IF Len(atual) > 1 THEN Append(grupos, atual) ELSE grupos
    ELSE IF fon[k] = fon[k - 1] /\ fon[k] # ""
         THEN AgruparIguais(palavras, fon, k + 1, Append(atual, palavras[k]), grupos)
         ELSE AgruparIguais(palavras, fon, k + 1, <<palavras[k]>>,
                            IF Len(atual) > 1 THEN Append(grupos, atual) ELSE grupos)

\* [w for w in frase.split() if any(c.isalpha() for c in w)]
ComLetras(fr) == SelectSeq(fr, LAMBDA w : w \notin SemLetras)

detectar_aliteracao(fz, fr) ==
    LET palavras == ComLetras(fr)
    IN  IF Len(palavras) < 2 THEN [erro |-> "nenhum", valor |-> <<>>]
        ELSE LET fons == [k \in 1..Len(palavras) |-> primeiro_fonema(fz, palavras[k])]
             IN  IF \E k \in 1..Len(palavras) : fons[k].erro # "nenhum"
                 THEN [erro |-> "Exception", valor |-> <<>>]
                 ELSE [erro |-> "nenhum",
                       valor |-> AgruparIguais(palavras,
                                               [k \in 1..Len(palavras) |-> fons[k].valor],
                                               2, <<palavras[1]>>, <<>>)]

(***************************************************************************)
(* SpecSom                                                                 *)
(***************************************************************************)
InitSom ==
    /\ prog = "detectar_aliteracoes"
    /\ pc = "inicio"
    /\ erro = "nenhum"
    /\ ParadoJanelas
    /\ ParadoAgregacao
    /\ ParadoMonotonia
    /\ ParadoNota
    /\ ParadoNomes
    /\ ParadoExame
    /\ ParadoRelatorio
    /\ ParadoCapitulos /\ ParadoMarcado /\ ParadoDistribuicao
    /\ frase \in FrasesSom
    /\ fonemizador \in Fonemizadores
    /\ aliteracoes = <<>>

\* alits = detectar_aliteracao(frase)
DetectarAliteracao ==
    /\ prog = "detectar_aliteracoes"
    /\ pc = "inicio"
    /\ LET r == detectar_aliteracao(fonemizador, frase)
       IN  /\ erro' = r.erro
           /\ aliteracoes' = r.valor
           /\ pc' = IF r.erro = "nenhum" THEN "detectado" ELSE "erro"
    /\ UNCHANGED <<prog, frase, fonemizador>>
    /\ UNCHANGED <<varsJanelas, varsAgregacao, varsMonotonia, varsNota, varsNomes>>
    /\ UNCHANGED <<varsExame, varsRelatorio>>
    /\ UNCHANGED <<varsCapitulos, varsMarcado, varsDistribuicao>>

NextSom == DetectarAliteracao

SpecSom == InitSom /\ [][NextSom]_vars

(***************************************************************************)
(* Properties of detectar_aliteracao (SpecSom).                            *)
(***************************************************************************)
\* The phonemizer was called on a word of the sentence and raised.
FonemizadorLevantou ==
    LET palavras == ComLetras(frase)
    IN  /\ Len(palavras) >= 2
        /\ \E k \in 1..Len(palavras) : fonemizador[palavras[k]].levanta

\* C14: when the phonemizer raises inside fonemas_palavra the failure
\* reaches the caller and the analysis of the sentence is aborted; the word
\* is not given an empty phoneme list.
C14_FalhaDoFonemizadorPropaga ==
    (prog = "detectar_aliteracoes" /\ pc # "inicio" /\ FonemizadorLevantou) =>
        /\ erro # "nenhum"
        /\ pc = "erro"

(***************************************************************************)
(* The main block of verificador_nomes.py with extrair_texto_de_pdf and    *)
(* gerar_relatorio.  extrair_texto_de_pdf of detector_virada.py and of     *)
(* contador_vicios.py return the same values.                              *)
(***************************************************************************)
\* The source 'main.pdf': missing; present when os.path.exists looks but
\* gone when PdfReader opens it; present but not readable as a PDF; or a
\* PDF with the texts of its pages.
Ausente == [tipo |-> "ausente", paginas |-> <<>>]

Removido == [tipo |-> "removido", paginas |-> <<>>]

Ilegivel == [tipo |-> "ilegivel", paginas |-> <<>>]

Pdf(paginas) == [tipo |-> "pdf", paginas |-> paginas]

\* page.extract_text() of a page: "" or "Kael".
TextosDePagina == {<<>>, <<75, 97, 101, 108>>}

Fontes ==
    {Ausente, Removido, Ilegivel}
    \cup {Pdf(ps) : ps \in UNION {[1..k -> TextosDePagina] : k \in 0..MaxPaginas}}

\* A returned value that is None, or a str.
None == [none |-> TRUE, texto |-> <<>>]

Str(t) == [none |-> FALSE, texto |-> t]

\* texto_completo += page.extract_text() + "\n", for every page.
RECURSIVE TextoDasPaginas(_)
TextoDasPaginas(ps) ==
    IF ps = <<>> THEN <<>> ELSE Head(ps) \o <<10>> \o TextoDasPaginas(Tail(ps))

\* extrair_texto_de_pdf: None on FileNotFoundError and on any other
\* exception, the text otherwise.
extrair_texto_de_pdf(f) ==
    IF f.tipo \in {"ausente", "removido"} THEN None
    ELSE IF f.tipo = "ilegivel" THEN None
    ELSE Str(TextoDasPaginas(f.paginas))

\* An excerpt of the demonstration text: "O Kaelin estava exausto."
TextoDemonstracao ==
    <<79, 32, 75, 97, 101, 108, 105, 110, 32, 101, 115, 116, 97, 118, 97, 32,
      101, 120, 97, 117, 115, 116, 111, 46>>

\* The report string built by gerar_relatorio at the time agora.
TextoDoRelatorio(caminho, inc, minimo, agora) ==
    [data_da_analise |-> agora,
     arquivo_fonte |-> caminho,
     limite_minimo |-> minimo,
     inconsistencias |->
        [b \in DOMAIN inc |-> [variacoes |-> inc[b], total_geral |-> SomaValores(inc[b])]]]

\* The pair gerar_relatorio returns when the write succeeds or fails.
gerar_relatorio_nomes(caminho, inc, minimo, agora, escreveu) ==
    IF escreveu
    THEN [relatorio |-> TextoDoRelatorio(caminho, inc, minimo, agora),
          nome_saida |-> "relatorio_consistencia_nomes.txt"]
    ELSE [relatorio |-> "Erro ao escrever arquivo", nome_saida |-> "None"]

\* caminho_do_arquivo as the main block passes it to gerar_relatorio.
CaminhoDoArquivo == IF fonte.tipo = "ausente" THEN "[DEMONSTRAÇÃO]" ELSE "main.pdf"

(***************************************************************************)
(* SpecRelatorio: runs of verificador_nomes.py on the same source.         *)
(***************************************************************************)
InitRelatorio ==
    /\ prog = "verificador_nomes_main"
    /\ pc = "inicio"
    /\ erro = "nenhum"
    /\ ParadoJanelas
    /\ ParadoAgregacao
    /\ ParadoMonotonia
    /\ ParadoNota
    /\ ParadoExame
    /\ ParadoSom
    /\ ParadoCapitulos /\ ParadoMarcado /\ ParadoDistribuicao
    /\ texto_nomes = <<>>
    /\ min_ocorrencias = 5
    /\ inconsistencias = <<>>
    /\ fonte \in Fontes
    /\ retorno = <<>>
    /\ relogio = 0
    /\ disco = <<>>
    /\ saida = <<>>
    /\ execucoes = 1

InalteradoForaDoRelatorio ==
    /\ UNCHANGED <<prog, erro, min_ocorrencias, fonte>>
    /\ UNCHANGED <<varsJanelas, varsAgregacao, varsMonotonia, varsNota, varsExame, varsSom>>
    /\ UNCHANGED <<varsCapitulos, varsMarcado, varsDistribuicao>>

\* not os.path.exists(caminho_do_arquivo): the demonstration text is used.
UsarDemonstracao ==
    /\ prog = "verificador_nomes_main"
    /\ pc = "inicio"
    /\ fonte.tipo = "ausente"
    /\ texto_nomes' = TextoDemonstracao
    /\ pc' = "texto_pronto"
    /\ UNCHANGED <<inconsistencias, retorno, relogio, disco, saida, execucoes>>
    /\ InalteradoForaDoRelatorio

\* texto_para_analisar = extrair_texto_de_pdf(caminho_do_arquivo)
ExtrairTextoDePdf ==
    /\ prog = "verificador_nomes_main"
    /\ pc = "inicio"
    /\ fonte.tipo # "ausente"
    /\ LET r == extrair_texto_de_pdf(fonte)
       IN  /\ retorno' = r
           /\ texto_nomes' = r.texto
    /\ pc' = "texto_pronto"
    /\ UNCHANGED <<inconsistencias, relogio, disco, saida, execucoes>>
    /\ InalteradoForaDoRelatorio

\* "if texto_para_analisar:" is false for None and for "".
SemTexto ==
    /\ prog = "verificador_nomes_main"
    /\ pc = "texto_pronto"
    /\ texto_nomes = <<>>
    /\ pc' = "fim"
    /\ UNCHANGED <<texto_nomes, inconsistencias, retorno, relogio, disco, saida, execucoes>>
    /\ InalteradoForaDoRelatorio

\* inconsistencias = verificar_consistencia_nomes(texto_para_analisar, min_ocorrencias)
VerificarTexto ==
    /\ prog = "verificador_nomes_main"
    /\ pc = "texto_pronto"
    /\ texto_nomes # <<>>
    /\ inconsistencias' = verificar_consistencia_nomes(texto_nomes, min_ocorrencias)
    /\ pc' = "verificado"
    /\ UNCHANGED <<texto_nomes, retorno, relogio, disco, saida, execucoes>>
    /\ InalteradoForaDoRelatorio

\* relatorio_saida, nome_saida = gerar_relatorio(...): the file is opened
\* with 'w' and written in full; when that fails the file is left as it was
\* or left empty.
GerarRelatorio ==
    /\ prog = "verificador_nomes_main"
    /\ pc = "verificado"
    /\ \/ LET r == gerar_relatorio_nomes(CaminhoDoArquivo, inconsistencias,
                                         min_ocorrencias, relogio, TRUE)
          IN  saida' = r /\ disco' = r.relatorio
       \/ /\ saida' = gerar_relatorio_nomes(CaminhoDoArquivo, inconsistencias,
                                            min_ocorrencias, relogio, FALSE)
          /\ (disco' = disco \/ disco' = <<>>)
    /\ pc' = "fim"
    /\ UNCHANGED <<texto_nomes, inconsistencias, retorno, relogio, execucoes>>
    /\ InalteradoForaDoRelatorio

\* A second passes.
Tique ==
    /\ prog = "verificador_nomes_main"
    /\ relogio < MaxRelogio
    /\ relogio' = relogio + 1
    /\ UNCHANGED <<pc, texto_nomes, inconsistencias, retorno, disco, saida, execucoes>>
    /\ InalteradoForaDoRelatorio

\* The script is run again on the same source with the same configuration.
NovaExecucao ==
    /\ prog = "verificador_nomes_main"
    /\ pc = "fim"
    /\ execucoes < MaxExecucoes
    /\ execucoes' = execucoes + 1
    /\ pc' = "inicio"
    /\ texto_nomes' = <<>>
    /\ inconsistencias' = <<>>
    /\ retorno' = <<>>
    /\ saida' = <<>>
    /\ UNCHANGED <<relogio, disco>>
    /\ InalteradoForaDoRelatorio

NextRelatorio ==
    \/ UsarDemonstracao
    \/ ExtrairTextoDePdf
    \/ SemTexto
    \/ VerificarTexto
    \/ GerarRelatorio
    \/ Tique
    \/ NovaExecucao

SpecRelatorio == InitRelatorio /\ [][NextRelatorio]_vars

(***************************************************************************)
(* Properties of the runs of verificador_nomes (SpecRelatorio).            *)
(***************************************************************************)
\* What happened to the source: it was missing, it could not be read, or
\* its text was extracted.
Desfecho(f) ==
    IF f.tipo \in {"ausente", "removido"} THEN "arquivo ausente"
    ELSE IF f.tipo = "ilegivel" THEN "arquivo ilegivel"
    ELSE "texto extraido"

\* C15: the value extrair_texto_de_pdf returns tells a missing file from an
\* unreadable file and from an extracted (possibly empty) text: no source
\* with another outcome gives the same value; and the pair gerar_relatorio
\* returns tells a failed write from a written report.
C15_FalhasDistinguiveis ==
    prog = "verificador_nomes_main" =>
        /\ retorno # <<>> =>
              \A f \in Fontes :
                  extrair_texto_de_pdf(f) = retorno => Desfecho(f) = Desfecho(fonte)
        /\ saida # <<>> =>
              /\ saida.nome_saida # "None" => disco = saida.relatorio
              /\ \A agora \in 0..MaxRelogio :
                    gerar_relatorio_nomes(CaminhoDoArquivo, inconsistencias,
                                          min_ocorrencias, agora, TRUE)
                    # gerar_relatorio_nomes(CaminhoDoArquivo, inconsistencias,
                                            min_ocorrencias, agora, FALSE)

\* C16: a run that writes the report over the report of an earlier run on
\* the same source and configuration leaves the same content in the file.
C16_RelatorioIdempotente ==
    [][(/\ prog = "verificador_nomes_main"
        /\ pc = "verificado"
        /\ pc' = "fim"
        /\ saida'.nome_saida # "None"
        /\ disco # <<>>) => disco' = disco]_vars

(***************************************************************************)
(* Inputs left as they were.                                               *)
(***************************************************************************)
\* C17: scoring, classification and aggregation do not modify their input:
\* the dict handed to frenesi_score holds after the call the keys and values
\* it held before (nota_frenesi is stored by the caller, examinar_texto);
\* gerar_alertas leaves stats and salvar_relatorio leaves capitulos_stats as
\* they were.
C17_EntradasIntactas ==
    [][/\ (prog = "frenesi_ultra_nota" /\ pc = "inicio" /\ pc' = "pontuado") =>
             /\ DOMAIN stats_nota' \ {"nota_frenesi"} = DOMAIN stats_nota
             /\ \A k \in DOMAIN stats_nota : stats_nota'[k] = stats_nota[k]
       /\ (prog = "analise_classes" /\ pc = "analisado" /\ pc' = "alertado") =>
             stats' = stats
       /\ (prog = "analise_capitulos" /\ pc = "analisando" /\ pc' = "salvo") =>
             capitulos_stats' = capitulos_stats]_vars

(***************************************************************************)
(* SpecClassificacao: the two classifiers, medir_monotonia and             *)
(* frenesi_score, side by side.                                            *)
(***************************************************************************)
InitClassificacao == InitMonotonia \/ InitNota

NextClassificacao == NextMonotonia \/ NextNota

SpecClassificacao == InitClassificacao /\ [][NextClassificacao]_vars

\* C18: classification depends on the field values only, not on the call
\* order: two paragraphs with sentences that have the same ir and sw get the
\* same label from the band table of medir_monotonia; the score of
\* frenesi_score is determined by the metric values; and a second call of
\* frenesi_score on the record the first call left returns the same score.
C18_ClassificacaoDeterminista ==
    /\ prog \in {"monotonia_analisador", "frenesi_ultra_monotonia"} =>
          \A a, b \in 1..Len(resultados) :
              (/\ resultados[a].frases # <<>>
               /\ resultados[b].frases # <<>>
               /\ resultados[a].ir2 = resultados[b].ir2
               /\ resultados[a].sw = resultados[b].sw)
              => resultados[a].nivel = resultados[b].nivel
    /\ (prog = "frenesi_ultra_nota" /\ pc \in {"pontuado", "repontuado"}) =>
          nota = Clamp(NotaBruta(stats_nota))
    /\ (prog = "frenesi_ultra_nota" /\ pc = "repontuado") =>
          stats_nota["nota_frenesi"] = nota

\* frenesi_score was called twice on a record whose first call added the
\* key ratio_verbos_fortes and whose score is not the baseline.
C18_Testemunha ==
    /\ prog = "frenesi_ultra_nota"
    /\ pc = "repontuado"
    /\ "ratio_verbos_fortes" \in DOMAIN stats_nota
    /\ stats_nota["nota_frenesi"] = nota
    /\ nota = 75

\* Two different paragraphs with the same ir and sw were classified.
C18_ParagrafosIguais ==
    /\ prog = "monotonia_analisador"
    /\ Len(resultados) = 2
    /\ resultados[1].frases # resultados[2].frases
    /\ resultados[1].frases # <<>>
    /\ resultados[1].ir2 = resultados[2].ir2
    /\ resultados[1].sw = resultados[2].sw

(***************************************************************************)
(* Word-boundary matching of contar_muletas                                *)
(***************************************************************************)
\* The character c of the original text is the lower-case letter l, in
\* either case.
MesmaLetra(c, l) == c = l \/ (c >= 65 /\ c <= 90 /\ c + 32 = l)

\* The entry lit stands at position p of t, whatever the case of its letters
\* in t, with no word character right before it or right after it.
Delimitada(t, lit, p) ==
    /\ p + Len(lit) - 1 <= Len(t)
    /\ \A k \in 1..Len(lit) : MesmaLetra(t[p + k - 1], lit[k])
    /\ (p = 1 \/ ~EhLetraPalavra(t[p - 1]))
    /\ (p + Len(lit) > Len(t) \/ ~EhLetraPalavra(t[p + Len(lit)]))

OcorrenciasDelimitadas(t, lit) ==
    Cardinality({p \in 1..Len(t) : Delimitada(t, lit, p)})

\* The entry lit stands at position p of t strictly inside a longer word.
DentroDePalavra(t, lit, p) ==
    /\ p + Len(lit) - 1 <= Len(t)
    /\ \A k \in 1..Len(lit) : MesmaLetra(t[p + k - 1], lit[k])
    /\ ~Delimitada(t, lit, p)

\* C19: for every entry of the lookup list, the count contar_muletas reports
\* is the number of places of the text where the entry stands delimited by
\* word boundaries, in whatever letter case the text has it; an entry inside
\* a longer word is not counted.
C19_SoPalavrasInteiras ==
    (prog = "contador_vicios" /\ pc = "contado") =>
        \A k \in 1..Len(df_geral) :
            df_geral[k].ocorrencias = OcorrenciasDelimitadas(texto, df_geral[k].muleta)

\* The text 'A ab': the entry 'a' is counted once, for the capital 'A', and
\* not for the 'a' inside 'ab'.
C19_Testemunha ==
    /\ prog = "contador_vicios" /\ pc = "contado"
    /\ texto = <<65, 32, 97, 98>>
    /\ DentroDePalavra(texto, <<97>>, 3)
    /\ \E k \in 1..Len(df_geral) :
          df_geral[k].muleta = <<97>> /\ df_geral[k].ocorrencias = 1

(***************************************************************************)
(* Whole-document total against the windows of contar_muletas              *)
(***************************************************************************)
RECURSIVE SomaOcorrencias(_)
SomaOcorrencias(df) ==
    IF df = <<>> THEN 0 ELSE Head(df).ocorrencias + SomaOcorrencias(Tail(df))

RECURSIVE SomaDasJanelas(_)
SomaDasJanelas(df) ==
    IF df = <<>> THEN 0
    ELSE Head(df).total_muletas_na_janela + SomaDasJanelas(Tail(df))

\* C20: with a window size of at least 1, the total of the 'Ocorrências'
\* column equals the sum of total_muletas_na_janela over all the windows.
C20_TotalIgualSomaDasJanelas ==
    (prog = "contador_vicios" /\ pc = "contado" /\ tamanho_janela >= 1) =>
        SomaOcorrencias(df_geral) = SomaDasJanelas(df_janela)

\* The same, for the single-word entries only: the rows of df_geral for
\* entries without a space against windows counted for those entries.
C20_SoEntradasSimples ==
    (prog = "contador_vicios" /\ pc = "contado" /\ tamanho_janela >= 1) =>
        \A k \in 1..Len(df_geral) :
            32 \notin {df_geral[k].muleta[j] : j \in 1..Len(df_geral[k].muleta)} =>
                df_geral[k].ocorrencias =
                    SomaDasJanelas([j \in 1..Len(df_janela) |->
                        [total_muletas_na_janela |->
                            Ocorrencias(Join(df_janela[j].janela_palavras),
                                        df_geral[k].muleta)]])

(***************************************************************************)
(* Frequency of the windows of contar_muletas                              *)
(***************************************************************************)
\* The fraction f is the value of a / b (b > 0).
ValeQuociente(f, a, b) == f.d > 0 /\ f.n * b = f.d * a

\* Number of windows of w words that n words fill, the partial one included.
NumeroDeJanelas(n, w) == (n + w - 1) \div w

\* C21: contar_muletas includes the partial trailing window, and the
\* frequency of every window is its count times 1000 divided by the number
\* of words the window really holds (0 for a window without words).
C21_FrequenciaPeloTamanhoReal ==
    (prog = "contador_vicios" /\ pc = "contado" /\ tamanho_janela >= 1 /\ texto # <<>>) =>
        LET n == Len(Split(ReplaceNL(Lower(texto))))
        IN  /\ Len(df_janela) = NumeroDeJanelas(n, tamanho_janela)
            /\ \A k \in 1..Len(df_janela) :
                  LET tam == Len(df_janela[k].janela_palavras)
                  IN  /\ tam = IF k < Len(df_janela) THEN tamanho_janela
                               ELSE n - (k - 1) * tamanho_janela
                      /\ IF tam = 0
                         THEN df_janela[k].frequencia_por_1000_palavras = FracaoZero
                         ELSE ValeQuociente(df_janela[k].frequencia_por_1000_palavras,
                                            df_janela[k].total_muletas_na_janela * 1000,
                                            tam)

\* Windows of 2 words over 3 words: the trailing window holds one word, which
\* is an entry of the list, and its frequency is 1000 per 1000 words.
C21_Testemunha ==
    /\ prog = "contador_vicios" /\ pc = "contado"
    /\ tamanho_janela = 2
    /\ Len(df_janela) = 2
    /\ Len(df_janela[2].janela_palavras) = 1
    /\ df_janela[2].total_muletas_na_janela = 1
    /\ df_janela[2].frequencia_por_1000_palavras = [n |-> 1000, d |-> 1]

(***************************************************************************)
(* split_capitulos of analise_capitulos_avancada.py and of                 *)
(* frenesi_literario_ultra.py                                              *)
(***************************************************************************)
MaxLinhas == 3        \* lines of a text given to the chapter scripts

\* 'capítulo', the literal of the two patterns.
PalavraCapitulo == <<99, 97, 112, 237, 116, 117, 108, 111>>

\* (?i): the character c of the text matches the k-th element of
\* cap[íi]tulo, in either case.
CasaLetraCapitulo(c, k) ==
    LET m == IF c = 205 THEN 237 ELSE LowerChar(c)
    IN  m = PalavraCapitulo[k] \/ (k = 4 /\ m = 105)

\* (?m)^ holds at position q: start of the text or right after a newline.
InicioDeLinha(t, q) == q = 1 \/ t[q - 1] = 10

CasaCapitulo(t, q) ==
    /\ q + Len(PalavraCapitulo) - 1 <= Len(t)
    /\ \A k \in 1..Len(PalavraCapitulo) : CasaLetraCapitulo(t[q + k - 1], k)

\* [^\n]* from position r: the index of the last character it takes (r - 1
\* when it takes none).
RECURSIVE FimSemNewline(_, _)
FimSemNewline(t, r) ==
    IF r > Len(t) \/ t[r] = 10 THEN r - 1 ELSE FimSemNewline(t, r + 1)

\* \s+ from position r, greedy: the index of the last whitespace it takes.
RECURSIVE FimEspacos(_, _)
FimEspacos(t, r) ==
    IF r > Len(t) \/ ~EhEspaco(t[r]) THEN r - 1 ELSE FimEspacos(t, r + 1)

\* \s+[^\n]+ from position r with \s+ ending at e or, backtracking, earlier:
\* the index where the match ends, 0 when there is none.
RECURSIVE FimEspacosEResto(_, _, _)
FimEspacosEResto(t, r, e) ==
    IF e < r THEN 0
    ELSE IF e + 1 <= Len(t) /\ t[e + 1] # 10 THEN FimSemNewline(t, e + 1)
    ELSE FimEspacosEResto(t, r, e - 1)

\* The index where a match of the pattern that starts at q ends, 0 when the
\* pattern does not match at q:
\*   "avancada"  (?im)^(cap[íi]tulo[^\n]*)
\*   "ultra"     (?im)^(cap[íi]tulo\s+[^\n]+)
FimCabecalho(padrao, t, q) ==
    IF ~(InicioDeLinha(t, q) /\ CasaCapitulo(t, q)) THEN 0
    ELSE LET r == q + Len(PalavraCapitulo)
         IN  IF padrao = "avancada" THEN FimSemNewline(t, r)
             ELSE FimEspacosEResto(t, r, FimEspacos(t, r))

\* re.split(pattern, texto) for a pattern that is one capturing group: the
\* text before each match, the match, ..., and the text after the last one.
RECURSIVE ReSplit(_, _, _, _)
ReSplit(padrao, t, q, ini) ==
    IF q > Len(t) THEN <<SubSeq(t, ini, Len(t))>>
    ELSE LET fim == FimCabecalho(padrao, t, q)
         IN  IF fim # 0
             THEN <<SubSeq(t, ini, q - 1), SubSeq(t, q, fim)>>
                  \o ReSplit(padrao, t, fim + 1, fim + 1)
             ELSE ReSplit(padrao, t, q + 1, ini)

\* 'Texto completo'
TextoCompleto == <<84, 101, 120, 116, 111, 32, 99, 111, 109, 112, 108, 101, 116, 111>>

\* 'Pré-texto'
PreTexto == <<80, 114, 233, 45, 116, 101, 120, 116, 111>>

\* The while loop of split_capitulos, from index idx (0-based) of partes.
RECURSIVE CapitulosDe(_, _)
CapitulosDe(partes, idx) ==
    IF ~(idx < Len(partes) - 1) THEN <<>>
    ELSE <<[titulo |-> Strip(partes[idx + 1]), texto |-> Strip(partes[idx + 2])]>>
         \o CapitulosDe(partes, idx + 2)

split_capitulos(padrao, t) ==
    LET partes == ReSplit(padrao, t, 1, 1)
    IN  IF Len(partes) <= 1
        THEN <<[titulo |-> TextoCompleto, texto |-> Strip(t)]>>
        ELSE LET prefixo == Strip(partes[1])
             IN  (IF prefixo # <<>>
                  THEN <<[titulo |-> PreTexto, texto |-> prefixo]>>
                  ELSE <<>>)
                 \o CapitulosDe(partes, 1)

\* re.sub(r"\s+", " ", texto): every run of whitespace becomes one space.
RECURSIVE ColapsarEspacos(_)
ColapsarEspacos(t) ==
    IF t = <<>> THEN <<>>
    ELSE IF EhEspaco(Head(t))
         THEN IF Len(t) > 1 /\ EhEspaco(t[2])
              THEN ColapsarEspacos(Tail(t))
              ELSE <<32>> \o ColapsarEspacos(Tail(t))
         ELSE <<Head(t)>> \o ColapsarEspacos(Tail(t))

\* normalizar_espacos of analise_capitulos_avancada and limpar of
\* frenesi_literario_ultra: the same four statements.
normalizar_espacos(t) ==
    Strip(ColapsarEspacos([k \in 1..Len(t) |-> IF t[k] \in {13, 10} THEN 32 ELSE t[k]]))

limpar(t) == normalizar_espacos(t)

\* Quote characters of remover_dialogos: " and the two curly quotes.
EhAspas(c) == c \in {34, 8220, 8221}

\* Index of the first quote character at or after j on the same line, 0 when
\* a newline or the end of the text comes first.
RECURSIVE ProximaAspas(_, _)
ProximaAspas(t, j) ==
    IF j > Len(t) \/ t[j] = 10 THEN 0
    ELSE IF EhAspas(t[j]) THEN j
    ELSE ProximaAspas(t, j + 1)

\* re.sub(r"[\"“”](.*?)[\"“”]", "", texto)
RECURSIVE RemoverAspas(_)
RemoverAspas(t) ==
    IF t = <<>> THEN <<>>
    ELSE IF EhAspas(Head(t)) /\ ProximaAspas(t, 2) # 0
         THEN RemoverAspas(SubSeq(t, ProximaAspas(t, 2) + 1, Len(t)))
         ELSE <<Head(t)>> \o RemoverAspas(Tail(t))

\* texto.split("\n"): the lines, empty ones included.
RECURSIVE SplitLinhasDe(_, _, _)
SplitLinhasDe(t, k, atual) ==
    IF k > Len(t) THEN <<atual>>
    ELSE IF t[k] = 10 THEN <<atual>> \o SplitLinhasDe(t, k + 1, <<>>)
    ELSE SplitLinhasDe(t, k + 1, Append(atual, t[k]))

SplitLinhas(t) == SplitLinhasDe(t, 1, <<>>)

\* sep.join(partes)
RECURSIVE JoinCom(_, _)
JoinCom(partes, sep) ==
    IF partes = <<>> THEN <<>>
    ELSE IF Len(partes) = 1 THEN partes[1]
    ELSE partes[1] \o sep \o JoinCom(Tail(partes), sep)

\* [l for l in linhas if not l.strip().startswith("—")]
RECURSIVE SemTravessao(_)
SemTravessao(linhas) ==
    IF linhas = <<>> THEN <<>>
    ELSE LET l == Strip(Head(linhas))
         IN  (IF l # <<>> /\ l[1] = 8212 THEN <<>> ELSE <<Head(linhas)>>)
             \o SemTravessao(Tail(linhas))

remover_dialogos(t) == JoinCom(SemTravessao(SplitLinhas(RemoverAspas(t))), <<10>>)

\* [p.strip() for p in texto.split("\n") if p.strip()]
RECURSIVE LinhasNaoVazias(_)
LinhasNaoVazias(linhas) ==
    IF linhas = <<>> THEN <<>>
    ELSE (IF Strip(Head(linhas)) # <<>> THEN <<Strip(Head(linhas))>> ELSE <<>>)
         \o LinhasNaoVazias(Tail(linhas))

ParagrafosDoTexto(t) == LinhasNaoVazias(SplitLinhas(t))

\* What the sentence segmenter of spaCy may return for a paragraph of n
\* words: the word counts of its sentences, which share the n words.
RECURSIVE Segmentacoes(_, _)
Segmentacoes(n, partes) ==
    IF n = 0 THEN {<<>>}
    ELSE IF partes = 0 THEN {}
    ELSE UNION {{<<k>> \o s : s \in Segmentacoes(n - k, partes - 1)} : k \in 1..n}

\* analisar_monotonia_por_paragrafo, with the segmentation seg[i] of the
\* i-th paragraph.
analisar_monotonia_por_paragrafo(t, seg) ==
    LET paragrafos == ParagrafosDoTexto(t)
    IN  [k \in 1..Len(paragrafos) |->
            LET m == medir_monotonia_ultra(seg[k])
            IN  [numero |-> k, paragrafo |-> paragrafos[k], frases |-> m.frases,
                 ir2 |-> m.ir2, sw |-> m.sw, nivel |-> m.nivel]]

\* The segmentations the paragraphs of a list may get, one per paragraph.
RECURSIVE SegmentacoesDe(_)
SegmentacoesDe(paragrafos) ==
    IF paragrafos = <<>> THEN {<<>>}
    ELSE {<<s>> \o r : s \in Segmentacoes(Len(Split(Head(paragrafos))), MaxFrases),
                       r \in SegmentacoesDe(Tail(paragrafos))}

(***************************************************************************)
(* Inputs and runs of the chapter scripts.                                 *)
(***************************************************************************)
\* Lines tried: empty, 'x', ' x ', 'Capítulo 1', 'CAPITULO I ', a bare
\* 'Capítulo', an indented ' Capítulo 1', the dialogue line '— x' and the
\* line '"x" x' with a quoted passage.
LinhasCapitulos ==
    {<<>>,
     <<120>>,
     <<32, 120, 32>>,
     <<67, 97, 112, 237, 116, 117, 108, 111, 32, 49>>,
     <<67, 65, 80, 73, 84, 85, 76, 79, 32, 73, 32>>,
     <<67, 97, 112, 237, 116, 117, 108, 111>>,
     <<32, 67, 97, 112, 237, 116, 117, 108, 111, 32, 49>>,
     <<8212, 32, 120>>,
     <<34, 120, 34, 32, 120>>}

TextosCapitulos ==
    {JoinCom(ls, <<10>>) : ls \in UNION {[1..k -> LinhasCapitulos] : k \in 0..MaxLinhas}}

\* The pattern of the split_capitulos that the script defines.
Padrao == IF prog \in {"split_capitulos_ultra", "frenesi_ultra_main"} THEN "ultra" ELSE "avancada"

InitCapitulos ==
    /\ prog \in {"split_capitulos_avancada", "split_capitulos_ultra",
                 "analise_capitulos_main", "frenesi_ultra_main"}
    /\ pc = "inicio"
    /\ erro = "nenhum"
    /\ ParadoJanelas /\ ParadoAgregacao /\ ParadoMonotonia /\ ParadoNota /\ ParadoNomes
    /\ ParadoExame /\ ParadoSom /\ ParadoRelatorio /\ ParadoMarcado /\ ParadoDistribuicao
    /\ texto_bruto \in TextosCapitulos
    /\ texto_norm = <<>>
    /\ capitulos = <<>>
    /\ capitulos_medidos = <<>>
    /\ texto_global = <<>>
    /\ monotonia = <<>>

InalteradoForaDosCapitulos ==
    /\ UNCHANGED <<prog, erro, texto_bruto>>
    /\ UNCHANGED <<varsJanelas, varsAgregacao, varsMonotonia, varsNota, varsNomes>>
    /\ UNCHANGED <<varsExame, varsSom, varsRelatorio, varsMarcado, varsDistribuicao>>

\* split_capitulos(texto) called on the extracted text.
SplitCapitulos ==
    /\ prog \in {"split_capitulos_avancada", "split_capitulos_ultra"}
    /\ pc = "inicio"
    /\ capitulos' = split_capitulos(Padrao, texto_bruto)
    /\ pc' = "dividido"
    /\ UNCHANGED <<texto_norm, capitulos_medidos, texto_global, monotonia>>
    /\ InalteradoForaDosCapitulos

\* main of analise_capitulos_avancada: texto_norm = normalizar_espacos(texto)
NormalizarEspacos ==
    /\ prog = "analise_capitulos_main"
    /\ pc = "inicio"
    /\ texto_norm' = normalizar_espacos(texto_bruto)
    /\ pc' = "normalizado"
    /\ UNCHANGED <<capitulos, capitulos_medidos, texto_global, monotonia>>
    /\ InalteradoForaDosCapitulos

\* main of frenesi_literario_ultra: texto_bruto = remover_dialogos(texto_bruto)
RemoverDialogos ==
    /\ prog = "frenesi_ultra_main"
    /\ pc = "inicio"
    /\ texto_norm' = remover_dialogos(texto_bruto)
    /\ pc' = "normalizado"
    /\ UNCHANGED <<capitulos, capitulos_medidos, texto_global, monotonia>>
    /\ InalteradoForaDosCapitulos

\* capitulos = split_capitulos(...) of the two mains; the main of
\* frenesi_literario_ultra then builds texto_global from the chapters.
DividirEmCapitulos ==
    /\ prog \in {"analise_capitulos_main", "frenesi_ultra_main"}
    /\ pc = "normalizado"
    /\ LET caps == split_capitulos(Padrao, texto_norm)
       IN  /\ capitulos' = caps
           /\ texto_global' =
                 IF prog = "frenesi_ultra_main"
                 THEN JoinCom([k \in 1..Len(caps) |-> limpar(caps[k].texto)], <<32>>)
                 ELSE <<>>
    /\ pc' = "dividido"
    /\ UNCHANGED <<texto_norm, capitulos_medidos, monotonia>>
    /\ InalteradoForaDosCapitulos

\* The loop over the chapters and the call of salvar_relatorio with the list
\* it built.  The statistics of a chapter are those of the text handed to
\* analisar_capitulo / examinar_texto, which stands for them here.
AnalisarCapitulos ==
    /\ prog \in {"analise_capitulos_main", "frenesi_ultra_main"}
    /\ pc = "dividido"
    /\ capitulos_medidos' =
          [k \in 1..Len(capitulos) |->
              [titulo |-> capitulos[k].titulo, stats |-> [texto |-> capitulos[k].texto]]]
    /\ pc' = "salvo"
    /\ UNCHANGED <<texto_norm, capitulos, texto_global, monotonia>>
    /\ InalteradoForaDosCapitulos

\* monotonia = analisar_monotonia_por_paragrafo(texto_global)
AnalisarMonotoniaPorParagrafo ==
    /\ prog = "frenesi_ultra_main"
    /\ pc = "salvo"
    /\ \E seg \in SegmentacoesDe(ParagrafosDoTexto(texto_global)) :
          monotonia' = analisar_monotonia_por_paragrafo(texto_global, seg)
    /\ pc' = "monotonia"
    /\ UNCHANGED <<texto_norm, capitulos, capitulos_medidos, texto_global>>
    /\ InalteradoForaDosCapitulos

NextCapitulos ==
    \/ SplitCapitulos
    \/ NormalizarEspacos
    \/ RemoverDialogos
    \/ DividirEmCapitulos
    \/ AnalisarCapitulos
    \/ AnalisarMonotoniaPorParagrafo

SpecCapitulos == InitCapitulos /\ [][NextCapitulos]_vars

(***************************************************************************)
(* Properties of split_capitulos (SpecCapitulos).                          *)
(***************************************************************************)
\* The line is a chapter header for the script: it starts with 'capítulo'
\* (any case, with or without the accent) and, for frenesi_literario_ultra,
\* goes on with whitespace and at least one more character.
EhLinhaCabecalho(padrao, linha) ==
    /\ CasaCapitulo(linha, 1)
    /\ padrao = "ultra" =>
          /\ Len(linha) >= Len(PalavraCapitulo) + 2
          /\ EhEspaco(linha[Len(PalavraCapitulo) + 1])

\* Index of the first header line of linhas after line k, Len(linhas) + 1
\* when there is none.
RECURSIVE ProximoCabecalho(_, _, _)
ProximoCabecalho(padrao, linhas, k) ==
    IF k + 1 > Len(linhas) THEN Len(linhas) + 1
    ELSE IF EhLinhaCabecalho(padrao, linhas[k + 1]) THEN k + 1
    ELSE ProximoCabecalho(padrao, linhas, k + 1)

\* The lines a+1 .. b-1 as one text, stripped.
TextoEntre(linhas, a, b) == Strip(JoinCom(SubSeq(linhas, a + 1, b - 1), <<10>>))

\* One segment per header line from line h on: its title is the line and its
\* text runs to the next header line.
RECURSIVE SegmentosDe(_, _, _)
SegmentosDe(padrao, linhas, h) ==
    IF h > Len(linhas) THEN <<>>
    ELSE LET prox == ProximoCabecalho(padrao, linhas, h)
         IN  <<[titulo |-> Strip(linhas[h]), texto |-> TextoEntre(linhas, h, prox)]>>
             \o SegmentosDe(padrao, linhas, prox)

\* The segments the text has, in document order.
SegmentosEsperados(padrao, t) ==
    LET linhas   == SplitLinhas(t)
        primeiro == ProximoCabecalho(padrao, linhas, 0)
        antes    == TextoEntre(linhas, 0, primeiro)
    IN  IF primeiro > Len(linhas)
        THEN <<[titulo |-> TextoCompleto, texto |-> Strip(t)]>>
        ELSE (IF antes # <<>> THEN <<[titulo |-> PreTexto, texto |-> antes]>> ELSE <<>>)
             \o SegmentosDe(padrao, linhas, primeiro)

SplitRetornou == prog \in {"split_capitulos_avancada", "split_capitulos_ultra"} /\ pc = "dividido"

\* C22: split_capitulos returns, in document order, 'Pré-texto' iff
\* non-blank text precedes the first header, then one segment per header
\* line titled with it and holding the text up to the next header, or the
\* single segment 'Texto completo' iff the text has no header line.
C22_SegmentosEmOrdem ==
    SplitRetornou => capitulos = SegmentosEsperados(Padrao, texto_bruto)

\* The same for split_capitulos of analise_capitulos_avancada alone.
C22_SegmentosAvancada ==
    (SplitRetornou /\ Padrao = "avancada") =>
        capitulos = SegmentosEsperados(Padrao, texto_bruto)

\* 'x', 'Capítulo 1', 'x' split by frenesi_literario_ultra: 'Pré-texto' and
\* one chapter with its body.
C22_CenarioUltra ==
    /\ SplitRetornou /\ Padrao = "ultra"
    /\ Len(capitulos) = 2
    /\ capitulos[1] = [titulo |-> PreTexto, texto |-> <<120>>]
    /\ capitulos[2].texto = <<120>>
    /\ capitulos = SegmentosEsperados(Padrao, texto_bruto)

(***************************************************************************)
(* Properties of the mains of the chapter scripts (SpecCapitulos).         *)
(***************************************************************************)
\* Number of header lines of a text, for the script's pattern.
NumeroDeCabecalhos(padrao, t) ==
    LET linhas == SplitLinhas(t)
    IN  Cardinality({k \in 1..Len(linhas) : EhLinhaCabecalho(padrao, linhas[k])})

\* The chapters of the text: its segments that start at a header line.
CapitulosEsperados(padrao, t) ==
    LET linhas == SplitLinhas(t)
    IN  SegmentosDe(padrao, linhas, ProximoCabecalho(padrao, linhas, 0))

\* The entries of a list of measured chapters that are not the pre-text.
RECURSIVE SemPreTexto(_)
SemPreTexto(medidos) ==
    IF medidos = <<>> THEN <<>>
    ELSE (IF Head(medidos).titulo = PreTexto THEN <<>> ELSE <<Head(medidos)>>)
         \o SemPreTexto(Tail(medidos))

\* C23: for an extracted text with k >= 1 chapter-header lines, the list
\* main of analise_capitulos_avancada hands to salvar_relatorio has one entry
\* per chapter, titled with the header and measured on the chapter's body.
C23_UmaEntradaPorCapitulo ==
    (prog = "analise_capitulos_main" /\ pc = "salvo"
        /\ NumeroDeCabecalhos("avancada", texto_bruto) >= 1) =>
        LET esperados == CapitulosEsperados("avancada", texto_bruto)
            medidos   == SemPreTexto(capitulos_medidos)
        IN  /\ Len(medidos) = Len(esperados)
            /\ \A k \in 1..Len(medidos) :
                  /\ medidos[k].titulo = esperados[k].titulo
                  /\ medidos[k].stats.texto = normalizar_espacos(esperados[k].texto)

\* Number of non-empty lines of the texts of a list of chapters.
RECURSIVE LinhasDosCapitulos(_)
LinhasDosCapitulos(caps) ==
    IF caps = <<>> THEN 0
    ELSE Len(ParagrafosDoTexto(Head(caps).texto)) + LinhasDosCapitulos(Tail(caps))

\* C26: when the chapters of the document hold p >= 2 non-empty lines, main
\* of frenesi_literario_ultra gets p entries, numbered 1..p, from
\* analisar_monotonia_por_paragrafo.
C26_UmaEntradaPorParagrafo ==
    (prog = "frenesi_ultra_main" /\ pc = "monotonia" /\ LinhasDosCapitulos(capitulos) >= 2) =>
        /\ Len(monotonia) = LinhasDosCapitulos(capitulos)
        /\ \A k \in 1..Len(monotonia) : monotonia[k].numero = k

\* analisar_monotonia_por_paragrafo never got more than one paragraph from
\* main of frenesi_literario_ultra.
C26_NoMaximoUmParagrafo ==
    (prog = "frenesi_ultra_main" /\ pc = "monotonia") => Len(monotonia) <= 1

(***************************************************************************)
(* monotonia_analisador.py: limpar_texto, analisar_texto, salvar_relatorio *)
(* and salvar_marcado                                                      *)
(***************************************************************************)
\* re.sub(r"[ \t]+", " ", texto)
RECURSIVE ColapsarBrancos(_)
ColapsarBrancos(t) ==
    IF t = <<>> THEN <<>>
    ELSE IF Head(t) \in {32, 9}
         THEN IF Len(t) > 1 /\ t[2] \in {32, 9}
              THEN ColapsarBrancos(Tail(t))
              ELSE <<32>> \o ColapsarBrancos(Tail(t))
         ELSE <<Head(t)>> \o ColapsarBrancos(Tail(t))

\* re.sub(r"\n{3,}", "\n\n", texto)
RECURSIVE ColapsarLinhas(_)
ColapsarLinhas(t) ==
    IF t = <<>> THEN <<>>
    ELSE IF Len(t) >= 3 /\ t[1] = 10 /\ t[2] = 10 /\ t[3] = 10
         THEN ColapsarLinhas(Tail(t))
         ELSE <<Head(t)>> \o ColapsarLinhas(Tail(t))

limpar_texto(t) ==
    Strip(ColapsarLinhas(ColapsarBrancos([k \in 1..Len(t) |-> IF t[k] = 13 THEN 10 ELSE t[k]])))

\* analisar_texto, with the segmentation seg[i] of the i-th paragraph.
analisar_texto(t, seg) ==
    LET paragrafos == ParagrafosDoTexto(t)
    IN  [k \in 1..Len(paragrafos) |->
            [num |-> k, texto |-> paragrafos[k]] @@ medir_monotonia(seg[k])]

\* '[MONOTONO] '
MarcaMonotono == <<91, 77, 79, 78, 79, 84, 79, 78, 79, 93, 32>>

\* Variant of LinhasMarcadas that marks every paragraph.
LinhasMarcadasTodas(res) == [k \in 1..Len(res) |-> MarcaMonotono \o res[k].texto]

\* The list linhas of salvar_marcado.
LinhasMarcadas(res) ==
    [k \in 1..Len(res) |->
        IF res[k].nivel = "Monótono" THEN MarcaMonotono \o res[k].texto ELSE res[k].texto]

\* The content salvar_marcado writes to texto_marcado.txt.
salvar_marcado(res) == JoinCom(LinhasMarcadas(res), <<10, 10>>)

\* The fields salvar_relatorio writes to relatorio_monotonia.txt, per paragraph.
salvar_relatorio_monotonia(res) ==
    [k \in 1..Len(res) |->
        [num |-> res[k].num, nivel |-> res[k].nivel, frases |-> res[k].frases,
         ir2 |-> res[k].ir2, sw |-> res[k].sw]]

\* Lines tried: empty, blank, 'x', ' x<TAB> x' and 'x x x'.
LinhasParagrafos ==
    {<<>>, <<32>>, <<120>>, <<32, 120, 9, 32, 120>>, <<120, 32, 120, 32, 120>>}

\* Line breaks tried: \n and \r.
TextosParagrafos ==
    {JoinCom(ls, <<10>>) : ls \in UNION {[1..k -> LinhasParagrafos] : k \in 0..MaxLinhas}}
    \cup {JoinCom(ls, <<13>>) : ls \in [1..2 -> LinhasParagrafos]}

InitMarcado ==
    /\ prog = "monotonia_analisador_main"
    /\ pc = "inicio"
    /\ erro = "nenhum"
    /\ ParadoJanelas /\ ParadoAgregacao /\ ParadoMonotonia /\ ParadoNota /\ ParadoNomes
    /\ ParadoExame /\ ParadoSom /\ ParadoRelatorio /\ ParadoCapitulos /\ ParadoDistribuicao
    /\ texto_paragrafos \in TextosParagrafos
    /\ texto_marcado = <<>>

InalteradoForaDoMarcado ==
    /\ UNCHANGED <<prog, erro>>
    /\ UNCHANGED <<extracao, doc, stats, capitulos_stats, glob, avisos>>
    /\ UNCHANGED <<varsJanelas, varsNota, varsNomes, varsExame, varsSom, varsRelatorio>>
    /\ UNCHANGED <<varsCapitulos, varsDistribuicao>>

\* texto = limpar_texto(texto)
LimparTexto ==
    /\ prog = "monotonia_analisador_main"
    /\ pc = "inicio"
    /\ texto_paragrafos' = limpar_texto(texto_paragrafos)
    /\ pc' = "limpo"
    /\ UNCHANGED <<resultados, relatorio, texto_marcado>>
    /\ InalteradoForaDoMarcado

\* resultados = analisar_texto(texto)
AnalisarTexto ==
    /\ prog = "monotonia_analisador_main"
    /\ pc = "limpo"
    /\ \E seg \in SegmentacoesDe(ParagrafosDoTexto(texto_paragrafos)) :
          resultados' = analisar_texto(texto_paragrafos, seg)
    /\ pc' = "analisado"
    /\ UNCHANGED <<texto_paragrafos, relatorio, texto_marcado>>
    /\ InalteradoForaDoMarcado

\* salvar_relatorio(resultados)
SalvarRelatorioMonotonia ==
    /\ prog = "monotonia_analisador_main"
    /\ pc = "analisado"
    /\ relatorio' = salvar_relatorio_monotonia(resultados)
    /\ pc' = "relatado"
    /\ UNCHANGED <<texto_paragrafos, resultados, texto_marcado>>
    /\ InalteradoForaDoMarcado

\* salvar_marcado(resultados)
SalvarMarcado ==
    /\ prog = "monotonia_analisador_main"
    /\ pc = "relatado"
    /\ texto_marcado' = salvar_marcado(resultados)
    /\ pc' = "marcado"
    /\ UNCHANGED <<texto_paragrafos, resultados, relatorio>>
    /\ InalteradoForaDoMarcado

NextMarcado ==
    \/ LimparTexto
    \/ AnalisarTexto
    \/ SalvarRelatorioMonotonia
    \/ SalvarMarcado

SpecMarcado == InitMarcado /\ [][NextMarcado]_vars

(***************************************************************************)
(* Properties of analisar_texto and salvar_marcado (SpecMarcado).          *)
(***************************************************************************)
\* The line has something besides whitespace.
NaoBranca(linha) == \E k \in 1..Len(linha) : ~EhEspaco(linha[k])

\* Indices of the non-blank lines of a text.
IndicesNaoBrancos(linhas) == {j \in 1..Len(linhas) : NaoBranca(linhas[j])}

\* Index of the k-th non-blank line.
IndiceDoParagrafo(linhas, k) ==
    CHOOSE j \in IndicesNaoBrancos(linhas) :
        Cardinality({m \in IndicesNaoBrancos(linhas) : m <= j}) = k

\* What texto_marcado.txt must hold for the results res.
MarcadoEsperado(res) ==
    JoinCom([k \in 1..Len(res) |->
                (IF res[k].nivel = "Monótono" THEN MarcaMonotono ELSE <<>>) \o res[k].texto],
            <<10, 10>>)

\* C24: analisar_texto yields one result per non-empty (non-blank) line of
\* the text, numbered 1..n in the order of the lines and holding the stripped
\* line; salvar_marcado writes each of these paragraphs once, in that order,
\* with '[MONOTONO] ' in front iff its classification is 'Monótono'.
C24_UmResultadoPorLinha ==
    (prog = "monotonia_analisador_main") =>
        LET linhas == SplitLinhas(texto_paragrafos)
        IN  /\ pc \in {"analisado", "relatado", "marcado"} =>
                  /\ Len(resultados) = Cardinality(IndicesNaoBrancos(linhas))
                  /\ \A k \in 1..Len(resultados) :
                        /\ resultados[k].num = k
                        /\ resultados[k].texto = Strip(linhas[IndiceDoParagrafo(linhas, k)])
            /\ pc = "marcado" => texto_marcado = MarcadoEsperado(resultados)

\* Two paragraphs around a dropped line, the first 'Monótono' and marked,
\* the second 'Variado' and written as it is.
C24_Testemunha ==
    /\ prog = "monotonia_analisador_main" /\ pc = "marcado"
    /\ Len(SplitLinhas(texto_paragrafos)) = 3
    /\ Len(resultados) = 2
    /\ resultados[1].nivel = "Monótono"
    /\ resultados[2].nivel = "Variado"
    /\ texto_marcado = MarcaMonotono \o <<120>> \o <<10, 10>> \o <<120, 32, 120, 32, 120>>

(***************************************************************************)
(* The window number shown for a turning point (SpecJanelas).              *)
(***************************************************************************)
\* C25: the window number detector_virada prints and plots for a turning
\* point of the pair (w, w+1) is w+1, the window whose score is shown as
\* pontuacao_no_ponto_virada, and so the index of an existing window.
C25_JanelaExibidaEhAPosterior ==
    (prog = "detector_virada" /\ pc = "exibido") =>
        /\ Len(viradas_exibidas) = Len(df_viradas)
        /\ \A k \in 1..Len(viradas_exibidas) :
              /\ viradas_exibidas[k] = df_viradas[k].index + 1
              /\ viradas_exibidas[k] < Len(df_resultado)
              /\ df_viradas[k].pontuacao_no_ponto_virada
                    = Num(PontuacaoDe(viradas_exibidas[k]))

\* The number shown is the one after the later window of the pair.
C25_ExibeASeguinte ==
    (prog = "detector_virada" /\ pc = "exibido") =>
        \A k \in 1..Len(viradas_exibidas) :
            viradas_exibidas[k] = df_viradas[k].index + 2

\* A turning point into the last window was shown with the number of
\* windows, which no window has.
C25_JanelaInexistente ==
    /\ prog = "detector_virada" /\ pc = "exibido"
    /\ \E k \in 1..Len(viradas_exibidas) : viradas_exibidas[k] = Len(df_resultado)

(***************************************************************************)
(* The name groups of verificar_consistencia_nomes (SpecNomes).            *)
(***************************************************************************)
\* The string has the shape the name pattern matches: words of one capital
\* and two or more lower-case ASCII letters, one whitespace between words.
RECURSIVE FormaDeNome(_)
FormaDeNome(n) ==
    /\ Len(n) >= 3
    /\ EhLetra(n[1]) /\ n[1] <= 90
    /\ LET resto == 1 + Cardinality({k \in 2..Len(n) :
                                        \A j \in 2..k : EhLetra(n[j]) /\ n[j] >= 97})
       IN  /\ resto >= 3
           /\ \/ resto = Len(n)
              \/ /\ resto + 1 < Len(n)
                 /\ EhEspaco(n[resto + 1])
                 /\ FormaDeNome(SubSeq(n, resto + 2, Len(n)))

\* The names the pattern finds in the text handed to the function.
NomesEncontrados == FindallNomes(texto_nomes, 1)

C28_NotaEntre15e90 ==
    (prog = "frenesi_ultra_nota" /\ pc \in {"pontuado", "repontuado"}) =>
        LET bruta == NotaBruta(stats_nota)
        IN  /\ bruta >= 15
            /\ bruta <= 90
            /\ nota = bruta
            /\ nota % 5 = 0
            /\ nota # 0
            /\ nota # 100

\* The lowest score: every rule group took its penalty.
C28_Testemunha ==
    /\ prog = "frenesi_ultra_nota" /\ pc = "pontuado"
    /\ nota = 15
    /\ AjusteVerbos(stats_nota) = -10
    /\ AjusteAdverbios(stats_nota) = -5

\* The highest score: every rule group but the adverbs, which has no bonus,
\* added its bonus.
C28_NotaMaxima ==
    /\ prog = "frenesi_ultra_nota" /\ pc = "pontuado"
    /\ nota = 90
    /\ AjusteAdverbios(stats_nota) = 0

(***************************************************************************)
(* Uniform paragraphs in the two monotony analysers.                       *)
(***************************************************************************)
InitRitmo == InitMonotonia \/ InitMarcado

NextRitmo == NextMonotonia \/ NextMarcado

SpecRitmo == InitRitmo /\ [][NextRitmo]_vars

\* All the sentences of the paragraph have the same word count.
FrasesIguais(f) == \A j, k \in 1..Len(f) : f[j] = f[k]

\* The k-th line salvar_marcado wrote: the lines are separated by a blank one.
LinhaEscrita(k) == SplitLinhas(texto_marcado)[2 * k - 1]

\* The paragraph of result k was written with the mark in front.
EscritoComMarca(k) ==
    (prog = "monotonia_analisador_main" /\ pc = "marcado") =>
        LinhaEscrita(k) = MarcaMonotono \o resultados[k].texto

\* C30 as stated: every paragraph whose sentences all have the same word
\* count, paragraphs of one sentence among them, has ir = 0 and sw = 0, is
\* 'Monótono' and is tagged, and sw is at most the number of sentences
\* minus one.
C30_ParagrafoUniforme ==
    \A k \in 1..Len(resultados) :
        LET r == resultados[k]
        IN  /\ r.sw <= Len(r.frases) - 1
            /\ FrasesIguais(r.frases) =>
                  /\ r.ir2.n = 0
                  /\ r.sw = 0
                  /\ r.nivel = "Monótono"
                  /\ EscritoComMarca(k)

\* C30, amended: the same for the paragraphs that have at least one sentence;
\* a paragraph without sentences has sw = 0 and is 'Indeterminado'.
C30_ParagrafoUniformeComFrases ==
    \A k \in 1..Len(resultados) :
        LET r == resultados[k]
        IN  IF Len(r.frases) = 0
            THEN r.sw = 0 /\ r.nivel = "Indeterminado"
            ELSE /\ r.sw <= Len(r.frases) - 1
                 /\ FrasesIguais(r.frases) =>
                       /\ r.ir2.n = 0
                       /\ r.sw = 0
                       /\ r.nivel = "Monótono"
                       /\ EscritoComMarca(k)

\* A paragraph of three sentences of one word each was written with the
\* mark, after a paragraph of two unequal sentences with one switch less
\* than it has sentences.
C30_Testemunha ==
    /\ prog = "monotonia_analisador_main" /\ pc = "marcado"
    /\ Len(resultados) = 2
    /\ resultados[1].frases \in {<<1, 2>>, <<2, 1>>}
    /\ resultados[1].nivel # "Monótono"
    /\ resultados[2].frases = <<1, 1, 1>>
    /\ resultados[2].nivel = "Monótono"
    /\ LinhaEscrita(2) = MarcaMonotono \o <<120, 32, 120, 32, 120>>

\* A paragraph of sentences of different categories reached the largest
\* number of switches, one less than its number of sentences.
C30_AlternanciaMaxima ==
    /\ prog \in {"monotonia_analisador", "frenesi_ultra_monotonia"}
    /\ \E k \in 1..Len(resultados) :
          Len(resultados[k].frases) = 3 /\ resultados[k].sw = 2

(***************************************************************************)
(* analisador_dialogo.py: analisar_distribuicao                            *)
(***************************************************************************)
MaxPalavrasDialogo == 4   \* words of a text given to analisar_distribuicao
MaxJanelaInteracao == 2   \* largest proximity window tried

\* [a-záéíóúàèìòùâêîôûãõç]
EhMinusculaPt(c) ==
    \/ c >= 97 /\ c <= 122
    \/ c \in {225, 233, 237, 243, 250, 224, 232, 236, 242, 249,
              226, 234, 238, 244, 251, 227, 245, 231}

\* \w, with the accented letters of the class above.
EhLetraDePalavra(c) == EhLetraPalavra(c) \/ EhMinusculaPt(c)

\* Index of the last character of the maximal run of lower-case letters that
\* starts at r (r - 1 when there is none).
RECURSIVE FimMinusculasPt(_, _)
FimMinusculasPt(t, r) ==
    IF r > Len(t) \/ ~EhMinusculaPt(t[r]) THEN r - 1 ELSE FimMinusculasPt(t, r + 1)

\* \b[A-Z][a-z...]{3,}\b matched at position p: the index where the match
\* ends, 0 when the pattern does not match at p.
FimNomePossivel(t, p) ==
    IF ~(/\ p <= Len(t)
         /\ t[p] >= 65 /\ t[p] <= 90
         /\ (p = 1 \/ ~EhLetraDePalavra(t[p - 1])))
    THEN 0
    ELSE LET fim == FimMinusculasPt(t, p + 1)
         IN  IF fim - p >= 3 /\ (fim = Len(t) \/ ~EhLetraDePalavra(t[fim + 1]))
             THEN fim ELSE 0

\* set(re.findall(r'\b[A-Z][a-z...]{3,}\b', texto_limpo))
NomesPossiveis(t) ==
    {SubSeq(t, p, FimNomePossivel(t, p)) : p \in {q \in 1..Len(t) : FimNomePossivel(t, q) # 0}}

\* \w+ from position r: the index of its last character (r - 1 when none).
RECURSIVE FimPalavraW(_, _)
FimPalavraW(t, r) ==
    IF r > Len(t) \/ ~EhLetraDePalavra(t[r]) THEN r - 1 ELSE FimPalavraW(t, r + 1)

\* Index of the first '"' at or after r, 0 when there is none.
RECURSIVE ProximaAspaDupla(_, _)
ProximaAspaDupla(t, r) ==
    IF r > Len(t) THEN 0
    ELSE IF t[r] = 34 THEN r
    ELSE ProximaAspaDupla(t, r + 1)

\* \s*(?:"([^"]+)") from position r: the index of the closing quote, 0 when
\* it does not match.
FimFala(t, r) ==
    LET abre == FimEspacos(t, r) + 1
    IN  IF abre > Len(t) \/ t[abre] # 34 THEN 0
        ELSE LET fecha == ProximaAspaDupla(t, abre + 1)
             IN  IF fecha > abre + 1 THEN fecha ELSE 0

\* (?:\s\w+){0,5}?\s*(?:"([^"]+)") from position r, after k groups \s\w+:
\* lazily, the speech is tried before one more group.
RECURSIVE FimDialogo(_, _, _)
FimDialogo(t, r, k) ==
    IF FimFala(t, r) # 0 THEN FimFala(t, r)
    ELSE IF /\ k < 5
            /\ r + 1 <= Len(t)
            /\ EhEspaco(t[r])
            /\ EhLetraDePalavra(t[r + 1])
         THEN FimDialogo(t, FimPalavraW(t, r + 1) + 1, k + 1)
         ELSE 0

\* The names of the tuples re.findall returns for the speech pattern, in
\* the order of the matches, which do not overlap.
RECURSIVE DialogosEncontrados(_, _)
DialogosEncontrados(t, p) ==
    IF p > Len(t) THEN <<>>
    ELSE LET fimNome == FimNomePossivel(t, p)
             fim     == IF fimNome = 0 THEN 0 ELSE FimDialogo(t, fimNome + 1, 0)
         IN  IF fim # 0
             THEN <<SubSeq(t, p, fimNome)>> \o DialogosEncontrados(t, fim + 1)
             ELSE DialogosEncontrados(t, p + 1)

\* contagem_dialogo: the Counter of the speakers that are possible names.
ContagemDialogo(falantes, nomes) ==
    [n \in {falantes[k] : k \in {j \in 1..Len(falantes) : falantes[j] \in nomes}} |->
        Cardinality({k \in 1..Len(falantes) : falantes[k] = n})]

\* a < b for str: by code points, a proper prefix first.
RECURSIVE MenorTexto(_, _)
MenorTexto(a, b) ==
    IF b = <<>> THEN FALSE
    ELSE IF a = <<>> THEN TRUE
    ELSE IF Head(a) # Head(b) THEN Head(a) < Head(b)
    ELSE MenorTexto(Tail(a), Tail(b))

\* tuple(sorted((nome_a, nome_b)))
ParOrdenado(a, b) == IF MenorTexto(b, a) THEN <<b, a>> ELSE <<a, b>>

\* interacoes[par] += 1 on a defaultdict(int)
Incrementar(acc, par) ==
    IF par \in DOMAIN acc THEN [acc EXCEPT ![par] = @ + 1] ELSE acc @@ (par :> 1)

\* [(i, palavra) for i, palavra in enumerate(palavras) if palavra in nomes_possiveis]
RECURSIVE NomesNoTexto(_, _, _)
NomesNoTexto(palavras, nomes, k) ==
    IF k > Len(palavras) THEN <<>>
    ELSE (IF palavras[k] \in nomes THEN <<[idx |-> k - 1, nome |-> palavras[k]]>> ELSE <<>>)
         \o NomesNoTexto(palavras, nomes, k + 1)

\* The inner loop as its comment describes it: a distance smaller than the
\* window, not smaller or equal.
RECURSIVE LacoInternoEstrito(_, _, _, _, _)
LacoInternoEstrito(nomes_no_texto, a, j, janela, acc) ==
    IF j > Len(nomes_no_texto) THEN acc
    ELSE LET b == nomes_no_texto[j]
         IN  IF b.idx - a.idx < janela
             THEN LET par == ParOrdenado(a.nome, b.nome)
                  IN  LacoInternoEstrito(nomes_no_texto, a, j + 1, janela,
                                         IF par[1] # par[2] THEN Incrementar(acc, par) ELSE acc)
             ELSE acc

\* The inner loop of the interaction count, from j on, with its break.
RECURSIVE LacoInterno(_, _, _, _, _)
LacoInterno(nomes_no_texto, a, j, janela, acc) ==
    IF j > Len(nomes_no_texto) THEN acc
    ELSE LET b == nomes_no_texto[j]
         IN  IF b.idx - a.idx <= janela
             THEN LET par == ParOrdenado(a.nome, b.nome)
                  IN  LacoInterno(nomes_no_texto, a, j + 1, janela,
                                  IF par[1] # par[2] THEN Incrementar(acc, par) ELSE acc)
             ELSE acc

\* The outer loop, from i on.
RECURSIVE LacoExterno(_, _, _, _)
LacoExterno(nomes_no_texto, ia, janela, acc) ==
    IF ia > Len(nomes_no_texto) THEN acc
    ELSE LacoExterno(nomes_no_texto, ia + 1, janela,
                     LacoInterno(nomes_no_texto, nomes_no_texto[ia], ia + 1, janela, acc))

analisar_distribuicao(t, janela) ==
    IF t = <<>>
    THEN [contagem_dialogo |-> <<>>, interacoes |-> <<>>, nomes_possiveis |-> {}]
    ELSE LET texto_limpo == ReplaceNL(t)
             nomes       == NomesPossiveis(texto_limpo)
             palavras    == Split(texto_limpo)
         IN  [contagem_dialogo |->
                  ContagemDialogo(DialogosEncontrados(texto_limpo, 1), nomes),
              interacoes |-> LacoExterno(NomesNoTexto(palavras, nomes, 1), 1, janela, <<>>),
              nomes_possiveis |-> nomes]

\* Words tried: 'Anna', 'Beto', 'Ana' (too short for a name), 'Anna,' (the
\* name with a comma), 'e' and the speech '"oi"'.
PalavrasDialogo ==
    {<<65, 110, 110, 97>>, <<66, 101, 116, 111>>, <<65, 110, 97>>,
     <<65, 110, 110, 97, 44>>, <<101>>, <<34, 111, 105, 34>>}

\* Texts tried: the words separated by spaces or by line breaks.
TextosDialogo ==
    UNION {{JoinCom(ps, <<32>>), JoinCom(ps, <<10>>)} :
              ps \in UNION {[1..k -> PalavrasDialogo] : k \in 0..MaxPalavrasDialogo}}

InitDistribuicao ==
    /\ prog = "analisador_dialogo"
    /\ pc = "inicio"
    /\ erro = "nenhum"
    /\ ParadoJanelas /\ ParadoAgregacao /\ ParadoMonotonia /\ ParadoNota /\ ParadoNomes
    /\ ParadoExame /\ ParadoSom /\ ParadoRelatorio /\ ParadoCapitulos /\ ParadoMarcado
    /\ texto_dialogo \in TextosDialogo
    /\ janela_interacao \in 0..MaxJanelaInteracao
    /\ nomes_possiveis = {}
    /\ contagem_dialogo = <<>>
    /\ interacoes = <<>>

\* analisar_distribuicao(texto, janela_interacao)
AnalisarDistribuicao ==
    /\ prog = "analisador_dialogo"
    /\ pc = "inicio"
    /\ LET r == analisar_distribuicao(texto_dialogo, janela_interacao)
       IN  /\ nomes_possiveis' = r.nomes_possiveis
           /\ contagem_dialogo' = r.contagem_dialogo
           /\ interacoes' = r.interacoes
    /\ pc' = "analisado"
    /\ UNCHANGED <<prog, erro, texto_dialogo, janela_interacao>>
    /\ UNCHANGED <<varsJanelas, varsAgregacao, varsMonotonia, varsNota, varsNomes>>
    /\ UNCHANGED <<varsExame, varsSom, varsRelatorio, varsCapitulos, varsMarcado>>

NextDistribuicao == AnalisarDistribuicao

SpecDistribuicao == InitDistribuicao /\ [][NextDistribuicao]_vars

\* The words of the text, as analisar_distribuicao splits them.
PalavrasDoDialogo == Split(ReplaceNL(texto_dialogo))

\* The word positions that hold a possible name.
OcorrenciasDeNomes ==
    {p \in 1..Len(PalavrasDoDialogo) : PalavrasDoDialogo[p] \in nomes_possiveis}

\* All pairs of occurrences p < q of the names a and b, one each, at most the
\* window apart: the exhaustive comparison.
ParesProximos(a, b) ==
    {pq \in OcorrenciasDeNomes \X OcorrenciasDeNomes :
        /\ pq[1] < pq[2]
        /\ {PalavrasDoDialogo[pq[1]], PalavrasDoDialogo[pq[2]]} = {a, b}
        /\ pq[2] - pq[1] <= janela_interacao}

DialogoContado ==
    pc = "analisado" /\ prog = "analisador_dialogo" =>
        \A n \in DOMAIN contagem_dialogo : n \in nomes_possiveis /\ contagem_dialogo[n] >= 1

====
